---- MODULE Spec2Model ----
(***************************************************************************)
(* Model of the peer-to-peer file distribution system: the Tracker         *)
(* registry (src/tracker.py), the Seeder keepalive loop (src/seeder.py)    *)
(* and the Leecher download loop (src/leecher.py), with the constants of   *)
(* src/common.py.                                                          *)
(*                                                                         *)
(* Time is the value of time.time(), in seconds, on a grid of TickStep.    *)
(* Every access to Tracker.seeders happens inside `with self.lock`, so     *)
(* each locked block is one atomic step.  A handler thread reads nothing   *)
(* but its datagram and the clock before its locked block, so a handler is *)
(* one step, taken when it holds the lock; where the code reads            *)
(* time.time() before it takes the lock (_handle_register, _cleanup) the   *)
(* step uses a clock value read up to one tick earlier.  Any number of     *)
(* handler threads may be in flight.                                       *)
(***************************************************************************)
EXTENDS Integers, Sequences, FiniteSets, TLC

\* ---------------------------------------------------------------- constants
TRACKER_TIMEOUT == 60
KEEPALIVE_INTERVAL == 30
CHUNK_SIZE == 512 * 1024
TRACKER_IP == "127.0.0.1"

\* get_file_info that rounds down
ChunkCountFloor(size) == size \div CHUNK_SIZE

\* common.get_file_info: chunk_count of a file of file_size bytes
ChunkCount(size) == (size + CHUNK_SIZE - 1) \div CHUNK_SIZE

\* ------------------------------------------------------------------- bounds
\* the clock runs for MaxTicks ticks
MaxTicks == 5

\* granularity of the clock: a quarter of the timeout
TickStep == TRACKER_TIMEOUT \div 4

\* header.get(...) of an absent field
None == "None"
\* an absent port: `not port` treats None and 0 alike
NoPort == 0

Files == {"a", "b"}
\* the seeders of the network, each serving one file: file name, address, listening
\* port and the (file_size, chunk_count) pairs it may announce
Seeds ==
  { [file |-> "a", host |-> "h1", port |-> 7001,
     metas |-> { [file_size |-> 1200000, chunk_count |-> 3] }],
    [file |-> "a", host |-> "h2", port |-> 7001,
     metas |-> { [file_size |-> 524288, chunk_count |-> 1] }],
    [file |-> "b", host |-> "h1", port |-> 7002,
     metas |-> { [file_size |-> 1200000, chunk_count |-> 3],
                 [file_size |-> 524288, chunk_count |-> 1] }] }

\* the address the Tracker sees on a Leecher's datagrams: a Leecher sends them to
\* common.TRACKER_IP, the loopback address, and what is sent to the loopback
\* address comes from it
LeecherAddr == TRACKER_IP

\* headers of register / become_seeder datagrams and the address they come from.
\* Seeder._register_with_tracker sends its host; Leecher.register_as_seeder sends
\* none (the third header); the last two lack file_name or port.
RegisterHeaders ==
  UNION { { [file |-> sd.file, host |-> sd.host, port |-> sd.port,
             file_size |-> m.file_size, chunk_count |-> m.chunk_count,
             addr |-> sd.host] : m \in sd.metas } : sd \in Seeds }
  \cup { [file |-> "a", host |-> None, port |-> 7001, file_size |-> 524288,
          chunk_count |-> 1, addr |-> "h2"],
         [file |-> None, host |-> "h1", port |-> 7001, file_size |-> 524288,
          chunk_count |-> 1, addr |-> "h1"],
         [file |-> "a", host |-> "h1", port |-> NoPort, file_size |-> 524288,
          chunk_count |-> 1, addr |-> "h1"] }

\* headers of keepalive datagrams: those the seeders send, one without file_name
\* and one for a port that never registers for the file
KeepaliveHeaders ==
  { [file |-> sd.file, host |-> sd.host, port |-> sd.port, addr |-> sd.host] : sd \in Seeds }
  \cup { [file |-> "a", host |-> None, port |-> 7001, addr |-> "h2"],
         [file |-> None, host |-> "h1", port |-> 7001, addr |-> "h1"],
         [file |-> "a", host |-> "h1", port |-> 7002, addr |-> "h1"] }

\* a register any sender can put on the wire: its chunk_count is not the number of
\* chunks its file_size gives
MismatchedHeaders ==
  { [file |-> "a", host |-> "h2", port |-> 7001, file_size |-> 524288,
     chunk_count |-> 3, addr |-> "h2"] }

\* datagrams _handle_message drops: bytes pickle cannot load, a command the
\* Tracker does not know, no command, and a message that is not a command
OtherHeaders ==
  { [decodable |-> FALSE, message_type |-> None, command_type |-> None,
     file |-> None, addr |-> LeecherAddr],
    [decodable |-> TRUE, message_type |-> "command", command_type |-> "get",
     file |-> "a", addr |-> LeecherAddr],
    [decodable |-> TRUE, message_type |-> "command", command_type |-> None,
     file |-> "a", addr |-> LeecherAddr],
    [decodable |-> TRUE, message_type |-> "data", command_type |-> "request",
     file |-> "a", addr |-> LeecherAddr] }

\* the datagram create_message builds from a command header
Datagram(cmd, hd) ==
  hd @@ [decodable |-> TRUE, message_type |-> "command", command_type |-> cmd]

VARIABLES
  seeders,    \* Tracker.seeders: file_name -> list of seeder records
  now,        \* time.time()
  out,        \* datagrams sent by the step just taken
  last,       \* the step just taken
  msg,        \* the header of the register the step just taken has recorded
  sweepDue,   \* _cleanup: end of the current time.sleep
  quiet,      \* sweeps run since a register or keepalive was last handled (0, 1, 2 = two or more)
  running,    \* Seeder.running
  kaDue,      \* Seeder._send_keepalive: end of the current shutdown_event.wait
  kaLost,     \* keepalive datagrams the network has lost
  spc,            \* Seeder.start: where its thread stands
  sres,           \* how Seeder.start ended: "true", "false", "raised"
  xpc,            \* a caller's Seeder.stop: the statement it is about to run
  stops,          \* calls of Seeder.stop by that caller that have returned
  shutdown_event, \* Seeder.shutdown_event is set
  tcp_socket,     \* Seeder.tcp_socket
  udp_socket,     \* Seeder.udp_socket
  kpc,            \* the thread of Seeder._send_keepalive
  response,       \* what _register_with_tracker received
  pending,        \* accepted connections whose _handle_client has not run
  conn,           \* the connection _handle_client has last served
  seen,           \* the loops that have read the shutdown signal as set
  slast,          \* the Seeder step just taken
  lpc,        \* Leecher.download_file: where it stands
  workers,    \* download_file: max_concurrent_downloads
  up,         \* the seeders that accept connections
  lseeders,   \* Leecher.seeders
  total_chunks,        \* Leecher.total_chunks
  file_size,           \* Leecher.file_size
  chunks_to_download,  \* download_file: chunks_to_download
  remaining_futures,   \* download_file: the batch, with each task's state
  downloaded_chunks,   \* Leecher.downloaded_chunks
  chunk_hashes,        \* Leecher.chunk_hashes
  download_complete,   \* Leecher.download_complete
  result,              \* what download_file returned
  output,              \* the file at output_path
  built,          \* Seeder.__init__: "no" before the call, then "yes" or "raised"
  opened,         \* sockets Seeder.__init__ has created
  path_exists,    \* Seeder.__init__: os.path.exists(self.file_path)
  listen_port,    \* Seeder.__init__: its listen_port argument, NoPort when omitted
  split,          \* get_file_info and split_file on the Seeder's file: size, position, chunks
  download_event, \* Leecher.download_event is set
  assembled,      \* what assemble_file returned: "none" before, "true", "false"
  verified,       \* what verify_file returned: "none" before, "true", "false"
  fpc,            \* the code that drives the Leecher: the call it is about to make
  announce,       \* register_as_seeder: what recvfrom gave it, NoReply before
  seeding         \* start_seeding: "none" before the call, where it stands, "true" or "false" once returned

trackerVars == <<seeders, now, out, last, msg, sweepDue, quiet>>
seederVars == <<running, kaDue, kaLost>>
lifeVars == <<spc, sres, xpc, stops, shutdown_event, tcp_socket, udp_socket, kpc, response,
              pending, conn, seen, slast>>
leecherVars == <<lpc, workers, up, lseeders, total_chunks, file_size, chunks_to_download,
                 remaining_futures, downloaded_chunks, chunk_hashes, download_complete,
                 result, output>>
ctorVars == <<built, opened, path_exists, listen_port, split>>
flowVars == <<download_event, assembled, verified, fpc, announce, seeding>>
vars == <<trackerVars, seederVars, lifeVars, leecherVars, ctorVars, flowVars>>

\* ----------------------------------------------------------- Tracker helpers
EmptyRegistry == [f \in {} |-> <<>>]

\* _handle_register that takes the host from the header alone
ResolveHostFromHeader(h, addr) == h

\* the (host, port) a message is about: header.get('host') or addr[0]
ResolveHost(h, addr) == IF h = None THEN addr ELSE h

\* first index i of list with list[i].host = host and list[i].port = port, else 0
FirstMatch(list, host, port) ==
  LET hits == {i \in 1..Len(list) : list[i].host = host /\ list[i].port = port}
  IN IF hits = {} THEN 0 ELSE CHOOSE i \in hits : \A j \in hits : i <= j

\* self.seeders.setdefault(file_name, [])
SetDefault(reg, f) ==
  IF f \in DOMAIN reg THEN reg
  ELSE [g \in DOMAIN reg \cup {f} |-> IF g = f THEN <<>> ELSE reg[g]]

\* _handle_register without the search for an existing record
RegisterAlwaysAppend(reg, f, rec) ==
  LET r1 == SetDefault(reg, f)
  IN [r1 EXCEPT ![f] = Append(@, rec)]

\* _handle_register that drops the existing record and appends the new one
RegisterMoveToEnd(reg, f, rec) ==
  LET r1 == SetDefault(reg, f)
      Other(s) == ~(s.host = rec.host /\ s.port = rec.port)
  IN [r1 EXCEPT ![f] = Append(SelectSeq(@, Other), rec)]

\* the locked block of _handle_register
RegisterLocked(reg, f, rec) ==
  LET r1 == SetDefault(reg, f)
      i == FirstMatch(r1[f], rec.host, rec.port)
  IN [r1 EXCEPT ![f] = IF i > 0 THEN [@ EXCEPT ![i] = rec] ELSE Append(@, rec)]

\* _handle_keepalive that adds a record for a seeder it does not know
KeepaliveUpsert(reg, f, host, port, t) ==
  LET r1 == SetDefault(reg, f)
      i == FirstMatch(r1[f], host, port)
  IN IF i > 0 THEN [r1 EXCEPT ![f][i].last_seen = t]
     ELSE [r1 EXCEPT ![f] = Append(@, [host |-> host, port |-> port, last_seen |-> t,
                                       file_size |-> 0, chunk_count |-> 0])]

\* the locked block of _handle_keepalive, at time t
KeepaliveLocked(reg, f, host, port, t) ==
  IF f \in DOMAIN reg
  THEN LET i == FirstMatch(reg[f], host, port)
       IN IF i > 0 THEN [reg EXCEPT ![f][i].last_seen = t] ELSE reg
  ELSE reg

\* _handle_request taking file_size and chunk_count from the last record
PeerListLastMeta(reg, f) ==
  IF f \in DOMAIN reg /\ reg[f] # <<>>
  THEN [type |-> "peer_list", file |-> f,
        seeders |-> [i \in 1..Len(reg[f]) |-> <<reg[f][i].host, reg[f][i].port>>],
        file_size |-> reg[f][Len(reg[f])].file_size,
        chunk_count |-> reg[f][Len(reg[f])].chunk_count]
  ELSE [type |-> "peer_list", file |-> f, seeders |-> <<>>,
        file_size |-> 0, chunk_count |-> 0]

\* the locked block of _handle_request and the reply built from it
PeerList(reg, f) ==
  IF f \in DOMAIN reg /\ reg[f] # <<>>
  THEN [type |-> "peer_list", file |-> f,
        seeders |-> [i \in 1..Len(reg[f]) |-> <<reg[f][i].host, reg[f][i].port>>],
        file_size |-> reg[f][1].file_size,
        chunk_count |-> reg[f][1].chunk_count]
  ELSE [type |-> "peer_list", file |-> f, seeders |-> <<>>,
        file_size |-> 0, chunk_count |-> 0]

\* the list comprehension of _cleanup with <= for <
AliveInclusive(list, t) ==
  LET Keep(s) == t - s.last_seen <= TRACKER_TIMEOUT
  IN SelectSeq(list, Keep)

\* the list comprehension of _cleanup with the sweep period for the timeout
AliveHalfTimeout(list, t) ==
  LET Keep(s) == t - s.last_seen < TRACKER_TIMEOUT \div 2
  IN SelectSeq(list, Keep)

\* the list comprehension of _cleanup
Alive(list, t) ==
  LET Keep(s) == t - s.last_seen < TRACKER_TIMEOUT
  IN SelectSeq(list, Keep)

\* _cleanup without the deletion of emptied entries
CleanupKeepEmpty(reg, t) == [f \in DOMAIN reg |-> Alive(reg[f], t)]

\* the locked block of _cleanup, with now = t
CleanupLocked(reg, t) ==
  LET keep == {f \in DOMAIN reg : Alive(reg[f], t) # <<>>}
  IN [f \in keep |-> Alive(reg[f], t)]

Ack(addr) == [type |-> "ack", to |-> addr]

\* what a handler leaves: the registry and the datagrams it has sent
Dropped(reg) == [seeders |-> reg, out |-> <<>>]

\* _handle_register without its early return
RegisterEffectUnchecked(reg, hd, ts) ==
  LET seeder == [host |-> ResolveHost(hd.host, hd.addr), port |-> hd.port,
                 last_seen |-> ts, file_size |-> hd.file_size,
                 chunk_count |-> hd.chunk_count]
  IN [seeders |-> RegisterLocked(reg, hd.file, seeder), out |-> <<Ack(hd.addr)>>]

\* _handle_register on header hd, its time.time() being ts
RegisterEffect(reg, hd, ts) ==
  IF hd.file = None \/ hd.port = NoPort
  THEN Dropped(reg)
  ELSE LET seeder == [host |-> ResolveHost(hd.host, hd.addr), port |-> hd.port,
                      last_seen |-> ts, file_size |-> hd.file_size,
                      chunk_count |-> hd.chunk_count]
       IN [seeders |-> RegisterLocked(reg, hd.file, seeder), out |-> <<Ack(hd.addr)>>]

\* _handle_message that sends only register to _handle_register
DispatchRegisterOnly(cmd) ==
  IF cmd = "register" THEN "register"
  ELSE IF cmd = "keepalive" THEN "keepalive"
  ELSE IF cmd = "request" THEN "request"
  ELSE "unknown"

\* _handle_message that answers get like request
DispatchGetAsRequest(cmd) ==
  IF cmd \in {"register", "become_seeder"} THEN "register"
  ELSE IF cmd = "keepalive" THEN "keepalive"
  ELSE IF cmd \in {"request", "get"} THEN "request"
  ELSE "unknown"

\* the if/elif chain of _handle_message: the handler a command goes to
Dispatch(cmd) ==
  IF cmd \in {"register", "become_seeder"} THEN "register"
  ELSE IF cmd = "keepalive" THEN "keepalive"
  ELSE IF cmd = "request" THEN "request"
  ELSE "unknown"

\* _handle_message on datagram dg: ts is the clock _handle_register reads, t the
\* clock inside the lock
HandleMessage(reg, dg, ts, t) ==
  IF ~dg.decodable THEN Dropped(reg)
  ELSE IF dg.message_type # "command" THEN Dropped(reg)
  ELSE IF Dispatch(dg.command_type) = "register" THEN RegisterEffect(reg, dg, ts)
  ELSE IF Dispatch(dg.command_type) = "keepalive"
       THEN [seeders |-> KeepaliveLocked(reg, dg.file, ResolveHost(dg.host, dg.addr),
                                         dg.port, t),
             out |-> <<>>]
  ELSE IF Dispatch(dg.command_type) = "request"
       THEN [seeders |-> reg, out |-> <<PeerList(reg, dg.file) @@ [to |-> dg.addr]>>]
  ELSE Dropped(reg)

\* msg of a step that records no register
NoHeader == [file |-> None]

\* clock values a thread that holds the lock at `now` may have read before it
\* took the lock
Stamps == {t \in {now - TickStep, now} : t >= 0}

\* ----------------------------------------------------------- Tracker actions
\* no connection served yet
NoConn == [state |-> "none"]

\* nothing received yet by _register_with_tracker
NoReply == [kind |-> "none"]

\* no file is being read
NoSplit == [pc |-> "none", file_size |-> 0, pos |-> 0, chunk_count |-> 0, chunks |-> <<>>,
            hashes |-> <<>>]

\* Seeder.__init__
SeederInit ==
  /\ running = FALSE
  /\ kaDue = 0
  /\ kaLost = 0
  /\ spc = "idle"
  /\ sres = "none"
  /\ xpc = "idle"
  /\ stops = 0
  /\ shutdown_event = FALSE
  /\ tcp_socket = "open"
  /\ udp_socket = "open"
  /\ kpc = "none"
  /\ response = NoReply
  /\ pending = 0
  /\ conn = NoConn
  /\ seen = {}
  /\ slast = "init"
  /\ built = "yes"
  /\ opened = Len(<<"tcp_socket", "udp_socket">>)
  /\ path_exists = TRUE
  /\ listen_port = 7001
  /\ split = NoSplit

\* no Seeder has been constructed yet
SeederUnbuilt ==
  /\ running = FALSE
  /\ kaDue = 0
  /\ kaLost = 0
  /\ spc = "idle"
  /\ sres = "none"
  /\ xpc = "idle"
  /\ stops = 0
  /\ shutdown_event = FALSE
  /\ tcp_socket = "none"
  /\ udp_socket = "none"
  /\ kpc = "none"
  /\ response = NoReply
  /\ pending = 0
  /\ conn = NoConn
  /\ seen = {}
  /\ slast = "init"
  /\ built = "no"
  /\ opened = 0
  /\ path_exists = FALSE
  /\ listen_port = NoPort
  /\ split = NoSplit

\* a dict with no key
EmptyDict == [k \in {} |-> None]

\* no file at output_path
NoFile == [exists |-> FALSE, data |-> <<>>]

\* Leecher.__init__
LeecherInit ==
  /\ lpc = "start"
  /\ lseeders = <<>>
  /\ total_chunks = 0
  /\ file_size = 0
  /\ chunks_to_download = <<>>
  /\ remaining_futures = <<>>
  /\ downloaded_chunks = EmptyDict
  /\ chunk_hashes = EmptyDict
  /\ download_complete = FALSE
  /\ result = FALSE          \* no return value before lpc = "done"
  /\ output = NoFile
  /\ download_event = FALSE
  /\ assembled = "none"
  /\ verified = "none"
  /\ fpc = "download_file"
  /\ announce = NoReply
  /\ seeding = "none"

Init ==
  /\ SeederInit
  /\ LeecherInit
  /\ workers = 1
  /\ up = {}
  /\ seeders = EmptyRegistry
  /\ now = 0
  /\ out = <<>>
  /\ last = "init"
  /\ msg = NoHeader
  /\ sweepDue = TRACKER_TIMEOUT \div 2
  /\ quiet = 0

\* _handle_message -> _handle_register; ts is its time.time() (line 96)
HandleRegister(cmd, hd, ts) ==
  /\ cmd \in {"register", "become_seeder"}
  /\ ts \in Stamps
  /\ LET eff == HandleMessage(seeders, Datagram(cmd, hd), ts, now)
     IN /\ seeders' = eff.seeders
        /\ out' = eff.out
  /\ IF hd.file = None \/ hd.port = NoPort
     THEN /\ last' = "register_drop"
          /\ msg' = NoHeader
          /\ UNCHANGED quiet
     ELSE /\ msg' = hd
          /\ last' = IF hd.file \in DOMAIN seeders
                        /\ FirstMatch(seeders[hd.file], ResolveHost(hd.host, hd.addr),
                                      hd.port) > 0
                     THEN "register_update" ELSE "register_new"
          /\ quiet' = 0
  /\ UNCHANGED <<now, sweepDue>>

\* _handle_message -> _handle_keepalive
HandleKeepalive(hd) ==
  /\ LET eff == HandleMessage(seeders, Datagram("keepalive", hd), now, now)
     IN /\ seeders' = eff.seeders
        /\ out' = eff.out
  /\ last' = IF hd.file \in DOMAIN seeders
                /\ FirstMatch(seeders[hd.file], ResolveHost(hd.host, hd.addr), hd.port) > 0
             THEN "keepalive_hit" ELSE "keepalive_miss"
  /\ msg' = NoHeader
  /\ quiet' = 0
  /\ UNCHANGED <<now, sweepDue>>

\* _handle_message -> _handle_request
HandleRequest(f, addr) ==
  /\ LET eff == HandleMessage(seeders, Datagram("request", [file |-> f, addr |-> addr]),
                              now, now)
     IN /\ seeders' = eff.seeders
        /\ out' = eff.out
  /\ last' = "request"
  /\ msg' = NoHeader
  /\ UNCHANGED <<now, sweepDue, quiet>>

\* _handle_message: unknown command, or a message that is not a command
HandleOther(hd) ==
  /\ LET eff == HandleMessage(seeders, hd, now, now)
     IN /\ seeders' = eff.seeders
        /\ out' = eff.out
  /\ last' = "ignored"
  /\ msg' = NoHeader
  /\ UNCHANGED <<now, sweepDue, quiet>>

\* one iteration of _cleanup: time.sleep has returned, t is its now = time.time()
\* (line 162), then the locked block; the next time.sleep starts
CleanupSweep(t) ==
  /\ t \in Stamps
  /\ t >= sweepDue
  /\ seeders' = CleanupLocked(seeders, t)
  /\ sweepDue' = now + TRACKER_TIMEOUT \div 2
  /\ out' = <<>>
  /\ last' = IF DOMAIN seeders' # DOMAIN seeders THEN "sweep_delete"
             ELSE IF seeders' # seeders THEN "sweep_evict" ELSE "sweep_keep"
  /\ msg' = NoHeader
  /\ quiet' = IF quiet >= 2 THEN 2 ELSE quiet + 1
  /\ UNCHANGED now

\* time passes; _cleanup gets the lock within a tick of the end of its sleep
Tick ==
  /\ now + TickStep <= MaxTicks * TickStep
  /\ now < sweepDue + TickStep
  /\ now' = now + TickStep
  /\ out' = <<>>
  /\ last' = "tick"
  /\ msg' = NoHeader
  /\ UNCHANGED <<seeders, sweepDue, quiet>>

TrackerNext ==
  \/ \E cmd \in {"register", "become_seeder"}, hd \in RegisterHeaders, ts \in Stamps :
       HandleRegister(cmd, hd, ts)
  \/ \E hd \in KeepaliveHeaders : HandleKeepalive(hd)
  \/ \E f \in Files \cup {None} : HandleRequest(f, LeecherAddr)
  \/ \E hd \in OtherHeaders : HandleOther(hd)
  \/ \E t \in Stamps : CleanupSweep(t)
  \/ Tick

Next == TrackerNext /\ UNCHANGED <<seederVars, lifeVars, leecherVars, ctorVars, flowVars>>

Spec == Init /\ [][Next]_vars

\* ------------------------------------------------- Tracker, any datagram
\* Every datagram _handle_message may be given, on every registry registers
\* and keepalives build; the clock stands still at one tick.
Datagrams ==
  {Datagram(cmd, hd) : cmd \in {"register", "become_seeder"},
                       hd \in RegisterHeaders \cup MismatchedHeaders}
  \cup {Datagram("keepalive", hd) : hd \in KeepaliveHeaders}
  \cup {Datagram("request", [file |-> f, addr |-> LeecherAddr]) : f \in Files \cup {None}}
  \cup OtherHeaders

DgInit ==
  /\ SeederInit
  /\ LeecherInit
  /\ workers = 1
  /\ up = {}
  /\ seeders = EmptyRegistry
  /\ now = TickStep
  /\ out = <<>>
  /\ last = "init"
  /\ msg = NoHeader
  /\ sweepDue = TRACKER_TIMEOUT \div 2
  /\ quiet = 0

\* Tracker.start hands the datagram to _handle_message on a thread of its own
Deliver(dg, ts) ==
  /\ ts \in Stamps
  /\ LET eff == HandleMessage(seeders, dg, ts, now)
     IN /\ seeders' = eff.seeders
        /\ out' = eff.out
  /\ msg' = dg
  /\ last' = "deliver"
  /\ UNCHANGED <<now, sweepDue, quiet, seederVars, lifeVars, leecherVars, ctorVars, flowVars>>

DgNext == \E dg \in Datagrams, ts \in Stamps : Deliver(dg, ts)

SpecDatagram == DgInit /\ [][DgNext]_vars

\* ------------------------------------------- Seeder keepalive against Tracker
\* One Seeder (src/seeder.py) and the Tracker on an exact schedule: the Seeder
\* sends a keepalive every KEEPALIVE_INTERVAL, the sweep runs every
\* TRACKER_TIMEOUT / 2, a datagram that is not lost is handled the instant it is
\* sent, and the network loses at most one keepalive.
TheSeeder == [file |-> "a", host |-> "h1", port |-> 7001,
              file_size |-> 1200000, chunk_count |-> 3, addr |-> "h1"]

\* the phase of the sweep against the Seeder's clock
SweepPhases == {t \in 1..(TRACKER_TIMEOUT \div 2) : t % TickStep = 0}

KaInit ==
  /\ SeederInit
  /\ LeecherInit
  /\ workers = 1
  /\ up = {}
  /\ seeders = EmptyRegistry
  /\ now = 0
  /\ out = <<>>
  /\ last = "init"
  /\ msg = NoHeader
  /\ sweepDue \in SweepPhases
  /\ quiet = 0

\* Seeder.start: _register_with_tracker gets its ack, running is set and the
\* keepalive thread starts; its first keepalive is due at once
SeederStart ==
  /\ ~running
  /\ HandleRegister("register", TheSeeder, now)
  /\ running' = TRUE
  /\ kaDue' = now
  /\ UNCHANGED <<kaLost, leecherVars, ctorVars, flowVars, lifeVars>>

\* Seeder._send_keepalive: one iteration, the datagram reaches the Tracker
KeepaliveDelivered ==
  /\ running
  /\ now >= kaDue
  /\ HandleKeepalive([file |-> TheSeeder.file, host |-> TheSeeder.host,
                      port |-> TheSeeder.port, addr |-> TheSeeder.addr])
  /\ kaDue' = now + KEEPALIVE_INTERVAL
  /\ UNCHANGED <<running, kaLost, leecherVars, ctorVars, flowVars, lifeVars>>

\* Seeder._send_keepalive: one iteration, the datagram is lost
KeepaliveLost ==
  /\ running
  /\ now >= kaDue
  /\ kaLost = 0
  /\ kaLost' = 1
  /\ kaDue' = now + KEEPALIVE_INTERVAL
  /\ out' = <<>>
  /\ last' = "lost"
  /\ msg' = NoHeader
  /\ UNCHANGED <<seeders, now, sweepDue, quiet, running, leecherVars, ctorVars, flowVars, lifeVars>>

\* the sweep, run the instant its sleep ends
KaSweep ==
  /\ CleanupSweep(now)
  /\ UNCHANGED <<seederVars, lifeVars, leecherVars, ctorVars, flowVars>>

\* time passes once everything due has run
KaTick ==
  /\ now < sweepDue
  /\ running => now < kaDue
  /\ Tick
  /\ UNCHANGED <<seederVars, lifeVars, leecherVars, ctorVars, flowVars>>

KaNext ==
  \/ SeederStart
  \/ KeepaliveDelivered
  \/ KeepaliveLost
  \/ KaSweep
  \/ KaTick

SpecKeepalive == KaInit /\ [][KaNext]_vars

\* ------------------------------------------------------------------ Leecher
\* One Leecher (src/leecher.py) downloads file "a" from the seeders the Tracker
\* lists.  The registry is what some registers have left in the Tracker; every
\* task of a batch runs on its own pool thread, so tasks finish in any order.
FileName == "a"

\* max_concurrent_downloads ranges over 1..MaxWorkers
MaxWorkers == 2

\* Seeder.chunks (common.split_file) of the seeder at <<host, port>>: h1 holds the
\* whole file, h2 a copy cut after its first chunk
Manifest(pr) ==
  IF pr = <<"h1", 7001>> THEN <<"c0", "c1", "c2">>
  ELSE IF pr = <<"h2", 7001>> THEN <<"c0">>
  ELSE <<>>

\* the bytes of a chunk, in blocks of half of CHUNK_SIZE: c0 and c1 are full
\* chunks, c2 is the short last chunk of h1's file
BlockSize == CHUNK_SIZE \div 2

Bytes(chunk) ==
  IF chunk = "c0" THEN <<"b0", "b1">>
  ELSE IF chunk = "c1" THEN <<"b2", "b3">>
  ELSE IF chunk = "c2" THEN <<"b4">>
  ELSE <<>>

\* the blocks of data written one after the other
RECURSIVE Join(_)
Join(data) == IF data = <<>> THEN "" ELSE Head(data) \o Join(Tail(data))

\* common.compute_hash: the digest of data, one per content
compute_hash(data) == "sha256:" \o Join(data)

\* the hash split_file keeps for a chunk
Hash(chunk) == compute_hash(Bytes(chunk))

\* len(chunk): split_file cuts CHUNK_SIZE bytes but for the last chunk of h1's file
ChunkLen(chunk) == IF chunk = "c2" THEN 1200000 - 2 * CHUNK_SIZE ELSE CHUNK_SIZE

\* Seeder._send_error: the message it sends
SendError ==
  [control_type |-> "error", chunk_index |-> None, chunk_size |-> None, hash |-> None,
   body |-> None]

\* _send_chunk that takes index 0 for out of range
SendChunkFromOne(pr, chunk_index) ==
  IF 1 <= chunk_index /\ chunk_index < Len(Manifest(pr))
  THEN [control_type |-> "chunk_data", chunk_index |-> chunk_index,
        chunk_size |-> ChunkLen(Manifest(pr)[chunk_index + 1]),
        hash |-> Hash(Manifest(pr)[chunk_index + 1]),
        body |-> Manifest(pr)[chunk_index + 1]]
  ELSE SendError

\* Seeder._send_chunk: the message the seeder at pr sends for get(chunk_index)
SendChunk(pr, chunk_index) ==
  IF 0 <= chunk_index /\ chunk_index < Len(Manifest(pr))
  THEN [control_type |-> "chunk_data", chunk_index |-> chunk_index,
        chunk_size |-> ChunkLen(Manifest(pr)[chunk_index + 1]),
        hash |-> Hash(Manifest(pr)[chunk_index + 1]),
        body |-> Manifest(pr)[chunk_index + 1]]
  ELSE SendError

\* d[k] = v of a dict
DictSet(d, k, v) == [x \in DOMAIN d \cup {k} |-> IF x = k THEN v ELSE d[x]]

\* list.remove(x) of a list without duplicates
Remove(list, x) ==
  LET Other(y) == y # x
  IN SelectSeq(list, Other)

\* the registries the downloads start from: up to two registers handled at time 0
Registered(h1, h2) ==
  LET Rec(hd) == [host |-> ResolveHost(hd.host, hd.addr), port |-> hd.port, last_seen |-> 0,
                  file_size |-> hd.file_size, chunk_count |-> hd.chunk_count]
  IN RegisterLocked(RegisterLocked(EmptyRegistry, h1.file, Rec(h1)), h2.file, Rec(h2))
WellFormed == {hd \in RegisterHeaders : hd.file # None /\ hd.port # NoPort}
\* the register of a Seeder whose file is empty: get_file_info gives 0 and 0
EmptyFileHeader ==
  [file |-> "a", host |-> "h1", port |-> 7001, file_size |-> 0,
   chunk_count |-> ChunkCount(0), addr |-> "h1"]
Registries ==
  {EmptyRegistry, Registered(EmptyFileHeader, EmptyFileHeader)}
  \cup {Registered(h1, h2) : h1 \in WellFormed, h2 \in WellFormed}

LeecherStart ==
  /\ SeederUnbuilt
  /\ LeecherInit
  /\ workers \in 1..MaxWorkers
  /\ seeders \in Registries
  /\ up \in SUBSET {<<"h1", 7001>>, <<"h2", 7001>>}
  /\ now = 0
  /\ out = <<>>
  /\ last = "init"
  /\ msg = NoHeader
  /\ sweepDue = TRACKER_TIMEOUT \div 2
  /\ quiet = 0

\* download_file, lines 146-155: request_seeders_from_tracker gets the Tracker's
\* peer_list, then the two early returns, then the queue of all chunk indices
Discover ==
  /\ lpc = "start"
  /\ HandleRequest(FileName, LeecherAddr)
  /\ LET reply == out'[1]
     IN /\ lseeders' = reply.seeders
        /\ total_chunks' = reply.chunk_count
        /\ file_size' = reply.file_size
        /\ IF reply.seeders = <<>> \/ reply.chunk_count = 0
           THEN /\ lpc' = "done"
                /\ result' = FALSE
                /\ chunks_to_download' = <<>>
           ELSE /\ lpc' = "submit"
                /\ result' = result
                /\ chunks_to_download' = [i \in 1..reply.chunk_count |-> i - 1]
  /\ UNCHANGED <<workers, up, remaining_futures, downloaded_chunks, chunk_hashes,
                 download_complete, output, seederVars, lifeVars, ctorVars, flowVars>>

\* request_seeders_from_tracker: no reply within the timeout (lines 81-83, 146-148)
DiscoverTimeout ==
  /\ lpc = "start"
  /\ lpc' = "done"
  /\ result' = FALSE
  /\ UNCHANGED <<workers, up, lseeders, total_chunks, file_size, chunks_to_download,
                 remaining_futures, downloaded_chunks, chunk_hashes, download_complete,
                 output, trackerVars, seederVars, lifeVars, ctorVars, flowVars>>

\* download_file, lines 163-171: one pass of the inner while loop draws a chunk
\* and a seeder and submits the task
Submit(chunk_index, seeder) ==
  /\ lpc = "submit"
  /\ chunks_to_download # <<>>
  /\ Len(remaining_futures) < workers
  /\ \E k \in 1..Len(chunks_to_download) : chunks_to_download[k] = chunk_index
  /\ \E k \in 1..Len(lseeders) : lseeders[k] = seeder
  /\ chunks_to_download' = Remove(chunks_to_download, chunk_index)
  /\ remaining_futures' =
       Append(remaining_futures, [chunk |-> chunk_index, seeder |-> seeder, state |-> "running"])
  /\ UNCHANGED <<lpc, workers, up, lseeders, total_chunks, file_size, downloaded_chunks,
                 chunk_hashes, download_complete, result, output, trackerVars, seederVars, lifeVars, ctorVars, flowVars>>

\* what the connection download_chunk opens to the peer at pr delivers: a peer
\* that is down refuses it; one that is up sends its message, whose unpickled
\* header is a dict or not, or lets recv time out, or closes before a whole
\* message has come
Received(pr, chunk_index, live) ==
  IF pr \notin live
  THEN {[kind |-> "refused"]}
  ELSE {[kind |-> "message", header |-> "dict", message |-> SendChunk(pr, chunk_index)],
        [kind |-> "message", header |-> None, message |-> SendChunk(pr, chunk_index)],
        [kind |-> "timeout"],
        [kind |-> "closed"]}

\* the try block of download_chunk (lines 98-130): how it ends and what it has
\* written by then.  connect and recv raise; a closed connection breaks the loop
\* with chunk_received false; a message is stored under the lock, the bytes
\* first (line 124), then response_header.get('hash') (line 125), which raises
\* on a header that is no dict
TryDownload(chunks, hashes, chunk_index, rx) ==
  IF rx.kind \in {"refused", "timeout"}
  THEN [downloaded_chunks |-> chunks, chunk_hashes |-> hashes, ret |-> "raise"]
  ELSE IF rx.kind = "closed"
  THEN [downloaded_chunks |-> chunks, chunk_hashes |-> hashes, ret |-> "false"]
  ELSE IF rx.header = "dict"
  THEN [downloaded_chunks |-> DictSet(chunks, chunk_index, rx.message.body),
        chunk_hashes |-> DictSet(hashes, chunk_index, rx.message.hash),
        ret |-> "true"]
  ELSE [downloaded_chunks |-> DictSet(chunks, chunk_index, rx.message.body),
        chunk_hashes |-> hashes, ret |-> "raise"]

\* download_chunk: the try block and `except Exception: return False` (lines 132-134)
DownloadChunk(chunks, hashes, chunk_index, rx) ==
  LET body == TryDownload(chunks, hashes, chunk_index, rx)
  IN [body EXCEPT !.ret = IF @ = "raise" THEN "false" ELSE @]

\* download_chunk on a pool thread, to its return
WorkerFinish(i) ==
  /\ i \in 1..Len(remaining_futures)
  /\ remaining_futures[i].state = "running"
  /\ \E rx \in Received(remaining_futures[i].seeder, remaining_futures[i].chunk, up) :
       LET eff == DownloadChunk(downloaded_chunks, chunk_hashes,
                                remaining_futures[i].chunk, rx)
       IN /\ downloaded_chunks' = eff.downloaded_chunks
          /\ chunk_hashes' = eff.chunk_hashes
          /\ remaining_futures' = [remaining_futures EXCEPT ![i].state = eff.ret]
  /\ UNCHANGED <<lpc, workers, up, lseeders, total_chunks, file_size, chunks_to_download,
                 download_complete, result, output, trackerVars, seederVars, lifeVars,
                 ctorVars, flowVars>>

\* the collecting loop that puts no chunk back
FailedDropped(batch) == <<>>

\* the chunks of the tasks that returned False, in batch order (lines 174-178)
Failed(batch) ==
  LET Bad(task) == task.state = "false"
      bad == SelectSeq(batch, Bad)
  IN [k \in 1..Len(bad) |-> bad[k].chunk]

\* the completion check that takes one chunk for all
CompleteOnFirstChunk(chunks, total) == Cardinality(DOMAIN chunks) >= 1

\* the completion check of download_file (line 182)
Complete(chunks, total) == Cardinality(DOMAIN chunks) = total

\* download_file, lines 174-185 and the test of the outer while: every
\* future.result() has returned, failed chunks go back to the queue, then the
\* completion check
Collect ==
  /\ lpc = "submit"
  /\ chunks_to_download = <<>> \/ Len(remaining_futures) >= workers
  /\ \A i \in 1..Len(remaining_futures) : remaining_futures[i].state # "running"
  /\ LET queue == chunks_to_download \o Failed(remaining_futures)
         complete == Complete(downloaded_chunks, total_chunks)
     IN /\ chunks_to_download' = queue
        /\ download_complete' = complete
        /\ lpc' = IF complete \/ queue = <<>> THEN "assemble" ELSE "submit"
  /\ remaining_futures' = <<>>
  /\ UNCHANGED <<workers, up, lseeders, total_chunks, file_size, downloaded_chunks,
                 chunk_hashes, result, output, trackerVars, seederVars, lifeVars, ctorVars, flowVars>>

\* out_file.write(chunk) for every chunk of a list, in order
RECURSIVE Written(_)
Written(list) == IF list = <<>> THEN <<>> ELSE Bytes(Head(list)) \o Written(Tail(list))

\* assemble_file without the length check and writing on over a gap
AssembleSkippingGaps(chunks, total, old) ==
  LET present == {i \in 0..(total - 1) : i \in DOMAIN chunks /\ chunks[i] # None}
      Nth(i) == IF i - 1 \in present THEN chunks[i - 1] ELSE "gap"
  IN [ok |-> TRUE,
      file |-> [exists |-> TRUE, data |-> Written([i \in 1..total |-> Nth(i)])]]

\* what assemble_file leaves at output_path and what it returns
AssembleFile(chunks, total, old) ==
  IF Cardinality(DOMAIN chunks) # total
  THEN [ok |-> FALSE, file |-> old]
  ELSE LET missing == {i \in 0..(total - 1) : i \notin DOMAIN chunks \/ chunks[i] = None}
           stop == IF missing = {} THEN total
                   ELSE CHOOSE i \in missing : \A j \in missing : i <= j
       IN [ok |-> missing = {},
           file |-> [exists |-> TRUE, data |-> Written([i \in 1..stop |-> chunks[i - 1]])]]

\* file.read(CHUNK_SIZE), the i-th time: the i-th window of the file, empty past
\* its end
Window(data, i) ==
  LET width == CHUNK_SIZE \div BlockSize
      first == i * width + 1
      end == IF (i + 1) * width <= Len(data) THEN (i + 1) * width ELSE Len(data)
  IN IF first > end THEN <<>> ELSE SubSeq(data, first, end)

\* verify_file that looks at the first chunk only
VerifyFirstOnly(file, hashes, total) ==
  /\ file.exists
  /\ total > 0 => (0 \in DOMAIN hashes /\ compute_hash(Window(file.data, 0)) = hashes[0])

\* the loop of verify_file from chunk i on (lines 247-253)
RECURSIVE VerifyFrom(_, _, _, _)
VerifyFrom(data, hashes, total, i) ==
  IF i >= total THEN TRUE
  ELSE IF i \notin DOMAIN hashes THEN FALSE
  ELSE IF compute_hash(Window(data, i)) # hashes[i] THEN FALSE
  ELSE VerifyFrom(data, hashes, total, i + 1)

\* verify_file: open raises on a missing file and the except returns False
VerifyFile(file, hashes, total) ==
  IF ~file.exists THEN FALSE ELSE VerifyFrom(file.data, hashes, total, 0)

\* download_file, lines 188-193: assemble_file runs when the download is complete,
\* sets download_event when it has written every chunk (line 224), and its result
\* is dropped
Finish ==
  /\ lpc = "assemble"
  /\ lpc' = "done"
  /\ IF download_complete
     THEN LET made == AssembleFile(downloaded_chunks, total_chunks, output)
          IN /\ output' = made.file
             /\ download_event' = (download_event \/ made.ok)
             /\ assembled' = IF made.ok THEN "true" ELSE "false"
             /\ result' = TRUE
     ELSE /\ output' = output
          /\ download_event' = download_event
          /\ assembled' = assembled
          /\ result' = FALSE
  /\ UNCHANGED <<workers, up, lseeders, total_chunks, file_size, chunks_to_download,
                 remaining_futures, downloaded_chunks, chunk_hashes, download_complete,
                 verified, fpc, announce, seeding, trackerVars, seederVars, lifeVars,
                 ctorVars>>

LeecherMain ==
  \/ Discover
  \/ DiscoverTimeout
  \/ \E c \in 0..(total_chunks - 1) : \E k \in 1..Len(lseeders) : Submit(c, lseeders[k])
  \/ Collect
  \/ Finish

LeecherWorkers == \E i \in 1..MaxWorkers : WorkerFinish(i)

\* ------------------------------------------- assemble_file and verify_file
\* The two methods on a Leecher in any download state: every dict of chunks
\* over the indices of h1's file, the hashes recorded with them or a dict that
\* differs from those in one entry, and every total_chunks up to that length.
ChunkIndices == 0..(Len(Manifest(<<"h1", 7001>>)) - 1)

ChunkDicts == UNION {[K -> {"c0", "c1", "c2", None}] : K \in SUBSET ChunkIndices}

\* the hashes download_chunk records with the chunks of d
Recorded(d) == [k \in DOMAIN d |-> IF d[k] = None THEN None ELSE Hash(d[k])]

HashDicts(d) ==
  {Recorded(d)}
  \cup {[k \in DOMAIN d \ {j} |-> Recorded(d)[k]] : j \in DOMAIN d}
  \cup {DictSet(Recorded(d), j, Hash("c1")) : j \in DOMAIN d}

FileInit ==
  /\ SeederUnbuilt
  /\ workers = 1
  /\ up = {}
  /\ seeders = EmptyRegistry
  /\ now = 0
  /\ out = <<>>
  /\ last = "init"
  /\ msg = NoHeader
  /\ sweepDue = TRACKER_TIMEOUT \div 2
  /\ quiet = 0
  /\ lpc = "done"
  /\ lseeders = <<>>
  /\ total_chunks \in 0..Cardinality(ChunkIndices)
  /\ file_size = total_chunks * CHUNK_SIZE
  /\ chunks_to_download = <<>>
  /\ remaining_futures = <<>>
  /\ downloaded_chunks \in ChunkDicts
  /\ chunk_hashes \in HashDicts(downloaded_chunks)
  /\ download_complete \in BOOLEAN
  /\ result = FALSE
  /\ output = NoFile
  /\ download_event = FALSE
  /\ assembled = "none"
  /\ verified = "none"
  /\ fpc = "download_file"
  /\ announce = NoReply
  /\ seeding = "none"

\* a call of assemble_file
Assemble ==
  /\ assembled = "none"
  /\ verified = "none"
  /\ LET made == AssembleFile(downloaded_chunks, total_chunks, output)
     IN /\ output' = made.file
        /\ download_event' = (download_event \/ made.ok)
        /\ assembled' = IF made.ok THEN "true" ELSE "false"
  /\ UNCHANGED <<lpc, workers, up, lseeders, total_chunks, file_size, chunks_to_download,
                 remaining_futures, downloaded_chunks, chunk_hashes, download_complete,
                 result, verified, fpc, announce, seeding, trackerVars, seederVars,
                 lifeVars, ctorVars>>

\* a block of the file with a byte of it changed
Changed == "zz"

\* no byte of the file has been changed since it was written
Untouched(file) == \A k \in 1..Len(file.data) : file.data[k] # Changed

\* something changes one byte of the file at output_path, in its block k
Tamper(k) ==
  /\ output.exists
  /\ verified = "none"
  /\ Untouched(output)
  /\ k \in 1..Len(output.data)
  /\ output' = [output EXCEPT !.data[k] = Changed]
  /\ UNCHANGED <<lpc, workers, up, lseeders, total_chunks, file_size, chunks_to_download,
                 remaining_futures, downloaded_chunks, chunk_hashes, download_complete,
                 result, download_event, assembled, verified, fpc, announce, seeding,
                 trackerVars, seederVars, lifeVars, ctorVars>>

\* a call of verify_file
Verify ==
  /\ verified = "none"
  /\ verified' = IF VerifyFile(output, chunk_hashes, total_chunks) THEN "true" ELSE "false"
  /\ UNCHANGED <<lpc, workers, up, lseeders, total_chunks, file_size, chunks_to_download,
                 remaining_futures, downloaded_chunks, chunk_hashes, download_complete,
                 result, output, download_event, assembled, fpc, announce, seeding,
                 trackerVars, seederVars, lifeVars, ctorVars>>

\* ------------------------------------------------------- Seeder lifecycle
\* One Seeder (src/seeder.py) serving h1's file: its start() on one thread, a
\* caller's stop() on another, the keepalive thread, and a thread per accepted
\* connection.  Threads interleave statement by statement.
SeederPair == <<TheSeeder.host, TheSeeder.port>>

\* calls of stop() the caller makes
MaxStops == 2

\* accepted connections waiting for their handler thread
MaxConns == 1

\* what recvfrom gives _register_with_tracker: nothing within 5 s, the Tracker's
\* ack, a control message that is no ack, an ack that is no control message,
\* bytes pickle cannot load
RegisterReplies ==
  { [kind |-> "timeout", decodable |-> FALSE, message_type |-> None, control_type |-> None],
    [kind |-> "datagram", decodable |-> TRUE, message_type |-> "control",
     control_type |-> "ack"],
    [kind |-> "datagram", decodable |-> TRUE, message_type |-> "control",
     control_type |-> "error"],
    [kind |-> "datagram", decodable |-> TRUE, message_type |-> "command",
     control_type |-> "ack"],
    [kind |-> "datagram", decodable |-> FALSE, message_type |-> None,
     control_type |-> None] }

\* _register_with_tracker taking every control message for an ack
RegisterSuccessAnyControl(r) ==
  /\ r.kind = "datagram"
  /\ r.decodable
  /\ r.message_type = "control"

\* _register_with_tracker: what it returns on r (the except branch returns False)
RegisterSuccess(r) ==
  /\ r.kind = "datagram"
  /\ r.decodable
  /\ r.message_type = "control"
  /\ r.control_type = "ack"

\* socket.close() that fails on a socket already closed
CloseOnce(sock) == IF sock = "closed" THEN "error" ELSE "closed"

\* socket.close()
Close(sock) == "closed"

\* the test both loops make: self.running and not self.shutdown_event.is_set(),
\* without the shutdown signal
LoopTestRunningOnly(r, ev) == r

\* the test both loops make: self.running and not self.shutdown_event.is_set()
LoopTest(r, ev) == r /\ ~ev

\* the loop has read the shutdown signal: is_set() is evaluated when running holds
Observed(r, ev) == r /\ ev

\* what a peer sends on a connection: nothing, bytes pickle cannot load, get
\* with an index, get without one, get_count, another command, no command, a
\* message that is no command
ClientRequests ==
  { [data |-> "empty"], [data |-> "bytes", decodable |-> FALSE] }
  \cup { [data |-> "bytes", decodable |-> TRUE, message_type |-> "command",
          command_type |-> "get", chunk_index |-> i] :
            i \in (0 - 1)..Len(Manifest(SeederPair)) }
  \cup { [data |-> "bytes", decodable |-> TRUE, message_type |-> "command",
          command_type |-> c] : c \in {"get", "get_count", "request", None} }
  \cup { [data |-> "bytes", decodable |-> TRUE, message_type |-> "data",
          command_type |-> "get", chunk_index |-> 0] }

\* Seeder._send_chunk_count: the message it sends
SendChunkCount(pr) ==
  [control_type |-> "chunk_count", chunk_index |-> None, chunk_size |-> None,
   hash |-> None, body |-> None]

\* _handle_client that closes the connection only when nothing was raised
HandleClientNoFinally(pr, req, sendOk) ==
  LET none == [replies |-> <<>>, closed |-> TRUE, raised |-> FALSE]
      message ==
        IF req.command_type = "get"
        THEN IF "chunk_index" \in DOMAIN req THEN SendChunk(pr, req.chunk_index)
             ELSE SendError
        ELSE SendChunkCount(pr)
  IN IF req.data = "empty" THEN none
     ELSE IF ~req.decodable THEN [replies |-> <<>>, closed |-> FALSE, raised |-> TRUE]
     ELSE IF req.message_type = "command" /\ req.command_type \in {"get", "get_count"}
          THEN IF sendOk THEN [none EXCEPT !.replies = <<message>>]
               ELSE [replies |-> <<>>, closed |-> FALSE, raised |-> TRUE]
     ELSE none

\* _handle_client on request req; sendOk: sendall succeeds.  What was sent,
\* whether the socket was closed, whether the thread ended in an exception
HandleClientEffect(pr, req, sendOk) ==
  LET none == [replies |-> <<>>, closed |-> TRUE, raised |-> FALSE]
      message ==
        IF req.command_type = "get"
        THEN IF "chunk_index" \in DOMAIN req THEN SendChunk(pr, req.chunk_index)
             ELSE SendError
        ELSE SendChunkCount(pr)
  IN IF req.data = "empty" THEN none
     ELSE IF ~req.decodable THEN [none EXCEPT !.raised = TRUE]
     ELSE IF req.message_type = "command" /\ req.command_type \in {"get", "get_count"}
          THEN IF sendOk THEN [none EXCEPT !.replies = <<message>>]
               ELSE [none EXCEPT !.raised = TRUE]
     ELSE none

\* Seeder.start is called
StartCall ==
  /\ spc = "idle"
  /\ spc' = "register"
  /\ slast' = "start"
  /\ UNCHANGED <<sres, xpc, stops, shutdown_event, tcp_socket, udp_socket, kpc,
                 response, pending, conn, seen, running, kaDue, kaLost, leecherVars, ctorVars, flowVars,
                 trackerVars>>

\* _register_with_tracker, lines 89-90: sendto raises on a closed socket
SendRegister ==
  /\ spc = "register"
  /\ IF udp_socket = "closed"
     THEN spc' = "done" /\ sres' = "raised"
     ELSE spc' = "await" /\ sres' = sres
  /\ slast' = "send_register"
  /\ UNCHANGED <<xpc, stops, shutdown_event, tcp_socket, udp_socket, kpc, response,
                 pending, conn, seen, running, kaDue, kaLost, leecherVars, ctorVars, flowVars, trackerVars>>

\* _register_with_tracker, lines 92-107, the Tracker having handled the register
\* and its ack having arrived
AwaitAck ==
  /\ spc = "await"
  /\ HandleRegister("register", TheSeeder, now)
  /\ response' = [kind |-> "datagram", decodable |-> TRUE, message_type |-> "control",
                  control_type |-> "ack"]
  /\ IF RegisterSuccess(response')
     THEN spc' = "bind" /\ sres' = sres
     ELSE spc' = "done" /\ sres' = "false"
  /\ slast' = "await"
  /\ UNCHANGED <<xpc, stops, shutdown_event, tcp_socket, udp_socket, kpc, pending,
                 conn, seen, running, kaDue, kaLost, leecherVars, ctorVars, flowVars>>

\* _register_with_tracker, lines 92-107, on anything else recvfrom gives or raises
AwaitOther(r) ==
  /\ spc = "await"
  /\ r.control_type # "ack" \/ r.message_type # "control"
  /\ response' = r
  /\ IF RegisterSuccess(r)
     THEN spc' = "bind" /\ sres' = sres
     ELSE spc' = "done" /\ sres' = "false"
  /\ slast' = "await"
  /\ UNCHANGED <<xpc, stops, shutdown_event, tcp_socket, udp_socket, kpc, pending,
                 conn, seen, running, kaDue, kaLost, leecherVars, ctorVars, flowVars, trackerVars>>

\* start, lines 49-50: bind and listen raise on a closed socket
Bind ==
  /\ spc = "bind"
  /\ IF tcp_socket = "closed"
     THEN spc' = "done" /\ sres' = "raised" /\ tcp_socket' = tcp_socket
     ELSE spc' = "setrun" /\ sres' = sres /\ tcp_socket' = "listening"
  /\ slast' = "bind"
  /\ UNCHANGED <<xpc, stops, shutdown_event, udp_socket, kpc, response, pending, conn,
                 seen, running, kaDue, kaLost, leecherVars, ctorVars, flowVars, trackerVars>>

\* start, line 51
SetRunning ==
  /\ spc = "setrun"
  /\ running' = TRUE
  /\ spc' = "spawn"
  /\ slast' = "set_running"
  /\ UNCHANGED <<sres, xpc, stops, shutdown_event, tcp_socket, udp_socket, kpc,
                 response, pending, conn, seen, kaDue, kaLost, leecherVars, ctorVars, flowVars,
                 trackerVars>>

\* start, line 52: the keepalive thread starts
Spawn ==
  /\ spc = "spawn"
  /\ kpc' = "test"
  /\ spc' = "loop"
  /\ slast' = "spawn"
  /\ UNCHANGED <<sres, xpc, stops, shutdown_event, tcp_socket, udp_socket, response,
                 pending, conn, seen, running, kaDue, kaLost, leecherVars, ctorVars, flowVars, trackerVars>>

\* start, line 56: the test of the accept loop
AcceptTest ==
  /\ spc = "loop"
  /\ spc' = IF LoopTest(running, shutdown_event) THEN "accept" ELSE "stop1"
  /\ seen' = IF Observed(running, shutdown_event) THEN seen \cup {"accept"} ELSE seen
  /\ slast' = "accept_test"
  /\ UNCHANGED <<sres, xpc, stops, shutdown_event, tcp_socket, udp_socket, kpc,
                 response, pending, conn, running, kaDue, kaLost, leecherVars, ctorVars, flowVars,
                 trackerVars>>

\* start, lines 57-62: no connection within 1 s.  On a socket closed under it
\* accept either times out or raises
AcceptTimeout ==
  /\ spc = "accept"
  /\ spc' = "loop"
  /\ slast' = "accept_timeout"
  /\ UNCHANGED <<sres, xpc, stops, shutdown_event, tcp_socket, udp_socket, kpc,
                 response, pending, conn, seen, running, kaDue, kaLost, leecherVars, ctorVars, flowVars,
                 trackerVars>>

\* start, lines 57-62: settimeout or accept raises OSError on a closed socket
AcceptRaise ==
  /\ spc = "accept"
  /\ tcp_socket = "closed"
  /\ spc' = "done"
  /\ sres' = "raised"
  /\ slast' = "accept_raise"
  /\ UNCHANGED <<xpc, stops, shutdown_event, tcp_socket, udp_socket, kpc, response,
                 pending, conn, seen, running, kaDue, kaLost, leecherVars, ctorVars, flowVars, trackerVars>>

\* start, lines 59-60: a connection is accepted and given a thread
AcceptConnection ==
  /\ spc = "accept"
  /\ tcp_socket = "listening"
  /\ pending < MaxConns
  /\ pending' = pending + 1
  /\ spc' = "loop"
  /\ slast' = "accept"
  /\ UNCHANGED <<sres, xpc, stops, shutdown_event, tcp_socket, udp_socket, kpc,
                 response, conn, seen, running, kaDue, kaLost, leecherVars, ctorVars, flowVars,
                 trackerVars>>

\* the statement of stop() a thread at position p runs (lines 69-72)
StopStatement(p) ==
  /\ running' = IF p = "stop1" THEN FALSE ELSE running
  /\ shutdown_event' = IF p = "stop2" THEN TRUE ELSE shutdown_event
  /\ tcp_socket' = IF p = "stop3" THEN Close(tcp_socket) ELSE tcp_socket
  /\ udp_socket' = IF p = "stop4" THEN Close(udp_socket) ELSE udp_socket

\* the position after statement p of stop()
AfterStop(p) ==
  IF p = "stop1" THEN "stop2" ELSE IF p = "stop2" THEN "stop3"
  ELSE IF p = "stop3" THEN "stop4" ELSE "done"

\* stop() run from start to end on a Seeder in state st
StopEffect(st) ==
  [running |-> FALSE, shutdown_event |-> TRUE, tcp_socket |-> Close(st.tcp_socket),
   udp_socket |-> Close(st.udp_socket)]

\* start, lines 65-66: self.stop(), one statement, then return True
StartStop ==
  /\ spc \in {"stop1", "stop2", "stop3", "stop4"}
  /\ StopStatement(spc)
  /\ spc' = AfterStop(spc)
  /\ sres' = IF spc = "stop4" THEN "true" ELSE sres
  /\ slast' = "start_stop"
  /\ UNCHANGED <<xpc, stops, kpc, response, pending, conn, seen, kaDue, kaLost,
                 leecherVars, ctorVars, flowVars, trackerVars>>

\* a caller calls stop()
StopCall ==
  /\ xpc = "idle"
  /\ stops < MaxStops
  /\ xpc' = "stop1"
  /\ slast' = "stop_call"
  /\ UNCHANGED <<spc, sres, stops, shutdown_event, tcp_socket, udp_socket, kpc,
                 response, pending, conn, seen, running, kaDue, kaLost, leecherVars, ctorVars, flowVars,
                 trackerVars>>

\* the caller's stop(), one statement
StopStep ==
  /\ xpc \in {"stop1", "stop2", "stop3", "stop4"}
  /\ StopStatement(xpc)
  /\ xpc' = IF xpc = "stop4" THEN "idle" ELSE AfterStop(xpc)
  /\ stops' = IF xpc = "stop4" THEN stops + 1 ELSE stops
  /\ slast' = IF xpc = "stop4" THEN "stop_return" ELSE "stop_step"
  /\ UNCHANGED <<spc, sres, kpc, response, pending, conn, seen, kaDue, kaLost,
                 leecherVars, ctorVars, flowVars, trackerVars>>

\* _send_keepalive, line 111: the test of the loop
KaTest ==
  /\ kpc = "test"
  /\ kpc' = IF LoopTest(running, shutdown_event) THEN "send" ELSE "done"
  /\ seen' = IF Observed(running, shutdown_event) THEN seen \cup {"keepalive"} ELSE seen
  /\ slast' = "ka_test"
  /\ UNCHANGED <<spc, sres, xpc, stops, shutdown_event, tcp_socket, udp_socket,
                 response, pending, conn, running, kaDue, kaLost, leecherVars, ctorVars, flowVars,
                 trackerVars>>

\* _send_keepalive, lines 112-120: sendto raises on a closed socket
KaSend ==
  /\ kpc = "send"
  /\ kpc' = IF udp_socket = "closed" THEN "raised" ELSE "wait"
  /\ slast' = IF udp_socket = "closed" THEN "ka_raise" ELSE "ka_send"
  /\ UNCHANGED <<spc, sres, xpc, stops, shutdown_event, tcp_socket, udp_socket,
                 response, pending, conn, seen, running, kaDue, kaLost, leecherVars, ctorVars, flowVars,
                 trackerVars>>

\* _send_keepalive, line 121: shutdown_event.wait returns
KaWait ==
  /\ kpc = "wait"
  /\ kpc' = "test"
  /\ slast' = "ka_wait"
  /\ UNCHANGED <<spc, sres, xpc, stops, shutdown_event, tcp_socket, udp_socket,
                 response, pending, conn, seen, running, kaDue, kaLost, leecherVars, ctorVars, flowVars,
                 trackerVars>>

\* _handle_client on its own thread, from recv to the close in finally
HandleClient(req, sendOk) ==
  /\ pending > 0
  /\ pending' = pending - 1
  /\ LET eff == HandleClientEffect(SeederPair, req, sendOk)
     IN conn' = [state |-> IF eff.closed THEN "closed" ELSE "open", req |-> req,
                 sendOk |-> sendOk, replies |-> eff.replies, raised |-> eff.raised]
  /\ slast' = "handle_client"
  /\ UNCHANGED <<spc, sres, xpc, stops, shutdown_event, tcp_socket, udp_socket, kpc,
                 response, seen, running, kaDue, kaLost, leecherVars, ctorVars, flowVars, trackerVars>>

StartThread ==
  \/ StartCall
  \/ SendRegister
  \/ AwaitAck
  \/ \E r \in RegisterReplies : AwaitOther(r)
  \/ Bind
  \/ SetRunning
  \/ Spawn
  \/ AcceptTest
  \/ AcceptTimeout
  \/ AcceptRaise
  \/ AcceptConnection
  \/ StartStop

KeepaliveThread ==
  \/ KaTest
  \/ KaSend
  \/ KaWait

ClientThreads == \E req \in ClientRequests, sendOk \in BOOLEAN : HandleClient(req, sendOk)

SeederNext ==
  \/ StartThread
  \/ StopCall
  \/ StopStep
  \/ KeepaliveThread
  \/ ClientThreads

SpecSeeder == Init /\ [][SeederNext]_vars

\* a peer fetches chunk 0
ServeOne ==
  HandleClient([data |-> "bytes", decodable |-> TRUE, message_type |-> "command",
                command_type |-> "get", chunk_index |-> 0], TRUE)

SeederFairNext ==
  \/ StartThread
  \/ StopCall
  \/ StopStep
  \/ KeepaliveThread
  \/ ServeOne

\* the Seeder with peers that only fetch chunk 0; every thread that can take a
\* step takes one in the end
SpecSeederFair ==
  /\ Init
  /\ [][SeederFairNext]_vars
  /\ WF_vars(StartThread)
  /\ WF_vars(StopStep)
  /\ WF_vars(KeepaliveThread)

\* --------------------------------------------------- Seeder construction
\* _find_available_port: the port the system hands out
FreePort == TheSeeder.port

\* Seeder.__init__ on a path that exists or not, with listen_port given or omitted
\* (NoPort): sockets counts every socket.socket() call in program order, the one
\* of _find_available_port (line 37) before the check of the path (line 24), the
\* two the Seeder keeps (lines 31, 33) after it
SeederNew(exists, port) ==
  LET found == IF port = NoPort THEN 1 ELSE 0
  IN IF ~exists
     THEN [raised |-> TRUE, sockets |-> found, tcp_socket |-> "none", udp_socket |-> "none"]
     ELSE [raised |-> FALSE, sockets |-> found + 2, tcp_socket |-> "open",
           udp_socket |-> "open"]

\* a process that has constructed no Seeder
ConstructInit ==
  /\ LeecherInit
  /\ workers = 1
  /\ up = {}
  /\ seeders = EmptyRegistry
  /\ now = 0
  /\ out = <<>>
  /\ last = "init"
  /\ msg = NoHeader
  /\ sweepDue = TRACKER_TIMEOUT \div 2
  /\ quiet = 0
  /\ SeederUnbuilt

\* Seeder(file_path, listen_port=port): what it does to the Seeder
Constructing(exists, port) ==
  /\ built = "no"
  /\ LET new == SeederNew(exists, port)
     IN /\ built' = IF new.raised THEN "raised" ELSE "yes"
        /\ opened' = new.sockets
        /\ tcp_socket' = new.tcp_socket
        /\ udp_socket' = new.udp_socket
  /\ path_exists' = exists
  /\ listen_port' = port
  /\ split' = split
  /\ slast' = "construct"
  /\ UNCHANGED <<spc, sres, xpc, stops, shutdown_event, kpc, response, pending, conn, seen,
                 seederVars>>

\* Seeder(file_path, listen_port=port) called on its own
Construct(exists, port) ==
  /\ Constructing(exists, port)
  /\ UNCHANGED <<trackerVars, leecherVars, flowVars>>

\* the methods of a Seeder that has been constructed
Constructed == built = "yes" /\ SeederFairNext

ConstructNext ==
  \/ \E exists \in BOOLEAN, port \in {NoPort, FreePort} : Construct(exists, port)
  \/ Constructed

SpecConstruct == ConstructInit /\ [][ConstructNext]_vars

\* ------------------------------------------ get_file_info and split_file
\* The two functions of src/common.py on one file, as Seeder.__init__ calls them
\* (lines 27-28).  A file is its size in bytes, a chunk the range of bytes one
\* f.read(CHUNK_SIZE) returns: the offset of its first byte and its length.
MaxFullChunks == 3

\* what a file has after its last full chunk
Tails == {0, 1, 2, CHUNK_SIZE \div 4, CHUNK_SIZE \div 2, 1200000 - 2 * CHUNK_SIZE, CHUNK_SIZE - 1}

FileSizes == {k * CHUNK_SIZE + d : k \in 0..MaxFullChunks, d \in Tails}

\* len(f.read(n)) at position pos of a file of size bytes
Read(size, pos, n) == IF size - pos < n THEN size - pos ELSE n

\* common.get_file_info on a file of size bytes
GetFileInfo(size) ==
  /\ split.pc = "none"
  /\ split' = [split EXCEPT !.pc = "read", !.file_size = size,
                            !.chunk_count = ChunkCount(size)]
  /\ UNCHANGED <<built, opened, path_exists, listen_port, trackerVars, seederVars,
                 lifeVars, leecherVars, flowVars>>

\* common.split_file: one pass of its loop (lines 74-79)
ReadChunk ==
  /\ split.pc = "read"
  /\ LET chunk == [first |-> split.pos,
                   len |-> Read(split.file_size, split.pos, CHUNK_SIZE)]
     IN split' = IF chunk.len = 0
                 THEN [split EXCEPT !.pc = "done"]
                 ELSE [split EXCEPT !.pos = @ + chunk.len,
                                    !.chunks = Append(@, chunk),
                                    !.hashes = Append(@, [sha256 |-> chunk])]
  /\ UNCHANGED <<built, opened, path_exists, listen_port, trackerVars, seederVars,
                 lifeVars, leecherVars, flowVars>>

SplitNext ==
  \/ \E size \in FileSizes : GetFileInfo(size)
  \/ ReadChunk

SpecSplit == ConstructInit /\ [][SplitNext]_vars

\* ------------------------------------------------- Leecher, after download
\* Leecher.port: the port given, or the one _find_available_port finds
LeecherPort == FreePort

\* the header register_as_seeder sends (lines 272-279): no host
SeederHeader ==
  [file |-> FileName, host |-> None, port |-> LeecherPort, file_size |-> file_size,
   chunk_count |-> total_chunks, addr |-> LeecherAddr]

\* the Tracker's reply to a become_seeder it has recorded
TrackerAck ==
  [kind |-> "datagram", decodable |-> TRUE, message_type |-> "control", control_type |-> "ack"]

\* register_as_seeder taking any reply for an ack
AsSeederSuccessAnyReply(r) == r.kind = "datagram"

\* register_as_seeder: what it returns on r (lines 282-294)
AsSeederSuccess(r) ==
  /\ r.kind = "datagram"
  /\ r.decodable
  /\ r.control_type = "ack"

\* start_seeding, lines 311-318: the two checks before register_as_seeder
Checking ==
  /\ seeding = "none"
  /\ seeding' = IF download_complete /\ output.exists THEN "register" ELSE "false"
  /\ UNCHANGED <<download_event, assembled, verified, announce, leecherVars, ctorVars,
                 lifeVars, seederVars, trackerVars>>

\* a call of start_seeding
SeedCall == Checking /\ UNCHANGED fpc

\* register_as_seeder: the Tracker records the become_seeder and its ack arrives
SeedAck ==
  /\ seeding = "register"
  /\ HandleRegister("become_seeder", SeederHeader, now)
  /\ announce' = TrackerAck
  /\ seeding' = IF AsSeederSuccess(TrackerAck) THEN "construct" ELSE "false"
  /\ UNCHANGED <<download_event, assembled, verified, fpc, leecherVars, ctorVars, lifeVars,
                 seederVars>>

\* register_as_seeder: recvfrom times out or gives something that is not the
\* Tracker's ack, the Tracker having recorded the become_seeder or not
SeedOther(r, recorded) ==
  /\ seeding = "register"
  /\ r # TrackerAck
  /\ IF recorded
     THEN HandleRegister("become_seeder", SeederHeader, now)
     ELSE UNCHANGED trackerVars
  /\ announce' = r
  /\ seeding' = IF AsSeederSuccess(r) THEN "construct" ELSE "false"
  /\ UNCHANGED <<download_event, assembled, verified, fpc, leecherVars, ctorVars, lifeVars,
                 seederVars>>

\* start_seeding, lines 324-331: the Seeder is constructed over the file and its
\* start handed to a thread; a constructor that raises makes it return False
SeedConstruct ==
  /\ seeding = "construct"
  /\ Constructing(output.exists, LeecherPort)
  /\ seeding' = IF built' = "yes" THEN "true" ELSE "false"
  /\ UNCHANGED <<download_event, assembled, verified, fpc, announce, leecherVars,
                 trackerVars>>

RegisterAsSeeder ==
  \/ SeedAck
  \/ \E r \in RegisterReplies, recorded \in BOOLEAN : SeedOther(r, recorded)

FileNext ==
  \/ Assemble
  \/ \E k \in 1..(2 * Cardinality(ChunkIndices)) : Tamper(k)
  \/ Verify
  \/ SeedCall
  \/ RegisterAsSeeder
  \/ SeedConstruct

SpecFile == FileInit /\ [][FileNext]_vars

\* the driver that takes every verify_file result for a success
SeedAfterAnyVerify(v) == v # "none"

\* `if leecher.verify_file():` of the drivers (leecher.py:354, peer.py:183)
SeedAfter(v) == v = "true"

\* the drivers, leecher.py:352-361 and peer.py:181-197: download_file has
\* returned True and verify_file is called
CallVerify ==
  /\ fpc = "download_file"
  /\ lpc = "done"
  /\ result
  /\ verified' = IF VerifyFile(output, chunk_hashes, total_chunks) THEN "true" ELSE "false"
  /\ fpc' = "verify_file"
  /\ UNCHANGED <<download_event, assembled, announce, seeding, leecherVars, ctorVars,
                 lifeVars, seederVars, trackerVars>>

\* download_file or verify_file has returned False: the driver stops
GiveUp ==
  /\ \/ fpc = "download_file" /\ lpc = "done" /\ ~result
     \/ fpc = "verify_file" /\ ~SeedAfter(verified)
  /\ fpc' = "end"
  /\ UNCHANGED <<download_event, assembled, verified, announce, seeding, leecherVars,
                 ctorVars, lifeVars, seederVars, trackerVars>>

\* verify_file has returned True and start_seeding is called
CallStartSeeding ==
  /\ fpc = "verify_file"
  /\ SeedAfter(verified)
  /\ Checking
  /\ fpc' = "start_seeding"

LeecherDriver ==
  \/ CallVerify
  \/ GiveUp
  \/ CallStartSeeding
  \/ RegisterAsSeeder
  \/ SeedConstruct

LeecherNext == LeecherMain \/ LeecherWorkers \/ LeecherDriver

\* the main thread and the pool threads keep running
SpecLeecher ==
  LeecherStart /\ [][LeecherNext]_vars /\ WF_vars(LeecherMain) /\ WF_vars(LeecherWorkers)

\* ------------------------------------------------- Leecher turned Seeder
\* A Leecher that has downloaded and verified h1's file calls start_seeding; the
\* Seeder it constructs registers and sends keepalives on the schedule of the
\* keepalive section, while the Tracker sweeps.
\* host of a Seeder constructed without one (seeder.py:12)
DefaultHost == "127.0.0.1"

\* os.path.getsize of the file at output_path: its blocks are of BlockSize bytes
\* but for the short block that ends h1's file
OutputSize ==
  LET n == Len(output.data)
  IN IF n = 0 THEN 0
     ELSE (n - 1) * BlockSize
          + (IF output.data[n] = Bytes("c2")[1] THEN ChunkLen("c2") ELSE BlockSize)

\* the header the new Seeder's _register_with_tracker and _send_keepalive send
NewSeederHeader ==
  [file |-> FileName, host |-> DefaultHost, port |-> listen_port,
   file_size |-> OutputSize, chunk_count |-> ChunkCount(OutputSize), addr |-> LeecherAddr]

SeedInit ==
  /\ SeederUnbuilt
  /\ workers = 1
  /\ up = {}
  /\ seeders \in {EmptyRegistry, Registered(TheSeeder, TheSeeder)}
  /\ now = 0
  /\ out = <<>>
  /\ last = "init"
  /\ msg = NoHeader
  /\ sweepDue \in SweepPhases
  /\ quiet = 0
  /\ lpc = "done"
  /\ lseeders = <<SeederPair>>
  /\ total_chunks = TheSeeder.chunk_count
  /\ file_size = TheSeeder.file_size
  /\ chunks_to_download = <<>>
  /\ remaining_futures = <<>>
  /\ downloaded_chunks = [c \in ChunkIndices |-> Manifest(SeederPair)[c + 1]]
  /\ chunk_hashes = Recorded(downloaded_chunks)
  /\ download_complete = TRUE
  /\ result = TRUE
  /\ output = AssembleFile(downloaded_chunks, total_chunks, NoFile).file
  /\ download_event = TRUE
  /\ assembled = "true"
  /\ verified = "true"
  /\ fpc = "verify_file"
  /\ announce = NoReply
  /\ seeding = "none"

\* the thread start_seeding hands seeder.start to: _register_with_tracker gets
\* its ack, running is set and the keepalive thread starts
NewSeederStart ==
  /\ seeding = "true"
  /\ built = "yes"
  /\ ~running
  /\ HandleRegister("register", NewSeederHeader, now)
  /\ running' = TRUE
  /\ kaDue' = now
  /\ UNCHANGED <<kaLost, leecherVars, ctorVars, flowVars, lifeVars>>

\* the new Seeder's _send_keepalive: one iteration
NewSeederKeepalive ==
  /\ running
  /\ now >= kaDue
  /\ HandleKeepalive([file |-> NewSeederHeader.file, host |-> NewSeederHeader.host,
                      port |-> NewSeederHeader.port, addr |-> NewSeederHeader.addr])
  /\ kaDue' = now + KEEPALIVE_INTERVAL
  /\ UNCHANGED <<running, kaLost, leecherVars, ctorVars, flowVars, lifeVars>>

SeedNext ==
  \/ CallStartSeeding
  \/ RegisterAsSeeder
  \/ SeedConstruct
  \/ NewSeederStart
  \/ NewSeederKeepalive
  \/ KaSweep
  \/ KaTick

SpecSeed == SeedInit /\ [][SeedNext]_vars

\* the seeder that holds the whole file
GoodSeeder == <<"h1", 7001>>

\* random.choice(self.seeders) is fair: a chunk that is drawn again and again is
\* sooner or later given to the seeder that holds the whole file
SpecLeecherFair ==
  /\ SpecLeecher
  /\ \A c \in 0..(Len(Manifest(GoodSeeder)) - 1) : SF_vars(Submit(c, GoodSeeder))

\* ------------------------------------------------------------ Tracker claims
Pair(s) == <<s.host, s.port>>
Indices(reg, f) == 1..Len(reg[f])
Age(s, t) == t - s.last_seen
SweepSteps == {"sweep_delete", "sweep_evict", "sweep_keep"}

\* C1: in every reachable registry state each file's record list holds at
\* most one record per (host, port) pair.
C1_OneRecordPerPeer ==
  \A f \in DOMAIN seeders : \A i, j \in Indices(seeders, f) :
    Pair(seeders[f][i]) = Pair(seeders[f][j]) => i = j

\* a re-registration was handled for a file that lists two peers on the same port
C1_Witness ==
  /\ last = "register_update"
  /\ \E f \in DOMAIN seeders :
       /\ Len(seeders[f]) = 2
       /\ seeders[f][1].port = seeders[f][2].port

\* C2 (as claimed): a peer_list reply never lists a peer whose record is
\* TRACKER_TIMEOUT or more seconds old.
C2_ExpiredNeverListed ==
  last = "request" =>
    \A f \in DOMAIN seeders : \A i \in Indices(seeders, f) :
      (out[1].file = f /\ Age(seeders[f][i], now) >= TRACKER_TIMEOUT)
        => \A k \in 1..Len(out[1].seeders) : out[1].seeders[k] # Pair(seeders[f][i])

\* C6: a register for a (file_name, host, port) that has a record replaces
\* that record in place: same keys, same length, the record at that position
\* carries the message's file_size and chunk_count and the handler's
\* timestamp, every other record is unchanged.
C6_ReplaceInPlace ==
  [][last' = "register_update" =>
       LET hd == msg'
           f == hd.file
           host == ResolveHost(hd.host, hd.addr)
           hits == {i \in Indices(seeders, f) : Pair(seeders[f][i]) = <<host, hd.port>>}
       IN /\ DOMAIN seeders' = DOMAIN seeders
          /\ Len(seeders'[f]) = Len(seeders[f])
          /\ \A g \in DOMAIN seeders : g # f => seeders'[g] = seeders[g]
          /\ \E i \in hits :
               /\ Pair(seeders'[f][i]) = <<host, hd.port>>
               /\ seeders'[f][i].file_size = hd.file_size
               /\ seeders'[f][i].chunk_count = hd.chunk_count
               /\ seeders'[f][i].last_seen \in Stamps
               /\ \A j \in Indices(seeders, f) : j # i => seeders'[f][j] = seeders[f][j]
    ]_vars

\* a re-registration replaced the first of two records: it now carries a later
\* timestamp than the record behind it
C6_Witness ==
  /\ last = "register_update"
  /\ \E f \in DOMAIN seeders :
       /\ Len(seeders[f]) = 2
       /\ seeders[f][1].last_seen > seeders[f][2].last_seen

\* C7: no file name is mapped to an empty record list.
C7_NoEmptyEntry == \A f \in DOMAIN seeders : seeders[f] # <<>>

\* a sweep has just deleted a file entry while another file keeps its records
C7_Witness == last = "sweep_delete" /\ DOMAIN seeders # {}

C10_KeepaliveFrame ==
  [][last' \in {"keepalive_hit", "keepalive_miss"} =>
     \A hd \in KeepaliveHeaders :
       HandleKeepalive(hd) =>
         LET host == ResolveHost(hd.host, hd.addr)
             Hit(f, s) == f = hd.file /\ s.host = host /\ s.port = hd.port
         IN /\ out' = <<>>
            /\ DOMAIN seeders' = DOMAIN seeders
            /\ \A f \in DOMAIN seeders :
                 /\ Len(seeders'[f]) = Len(seeders[f])
                 /\ \A i \in Indices(seeders, f) :
                      IF Hit(f, seeders[f][i])
                      THEN seeders'[f][i] = [seeders[f][i] EXCEPT !.last_seen = now]
                      ELSE seeders'[f][i] = seeders[f][i]
    ]_vars

\* a keepalive arrived for a seeder that has no record, after the timeout
C10_Witness ==
  /\ last = "keepalive_miss"
  /\ now >= TRACKER_TIMEOUT
  /\ "a" \notin DOMAIN seeders

\* ----------------------------------------------------------- Seeder claims
HasRecord(reg, hd) ==
  /\ hd.file \in DOMAIN reg
  /\ FirstMatch(reg[hd.file], hd.host, hd.port) > 0

\* C5 (as claimed): a started Seeder that has lost at most one keepalive has
\* its record in the registry, whatever the phase of the sweep.
C5_OneLossTolerated == (running /\ kaLost <= 1) => HasRecord(seeders, TheSeeder)

\* ------------------------------------------------- Tracker datagram claims
\* the datagram just handled is a register or a become_seeder
IsRegister(dg) ==
  /\ dg.decodable
  /\ dg.message_type = "command"
  /\ dg.command_type \in {"register", "become_seeder"}

\* the datagram just handled is a request
IsRequest(dg) ==
  /\ dg.decodable
  /\ dg.message_type = "command"
  /\ dg.command_type = "request"

\* the datagram just handled is one the Tracker has no handler for
IsUnknown(dg) ==
  \/ ~dg.decodable
  \/ dg.message_type # "command"
  \/ dg.command_type \notin {"register", "become_seeder", "keepalive", "request"}

\* C11: a request for file f is answered by exactly one peer_list reply to the
\* sender, listing every (host, port) recorded for f in list order with the
\* file_size and chunk_count of the first record, or an empty list with 0 and 0
\* when f has no entry; the registry stays as it is.
C11_RequestReply ==
  [][(last' = "deliver" /\ IsRequest(msg')) =>
       LET f == msg'.file
           reply == out'[1]
       IN /\ seeders' = seeders
          /\ Len(out') = 1
          /\ reply.type = "peer_list"
          /\ reply.to = msg'.addr
          /\ IF f \in DOMAIN seeders
             THEN /\ Len(reply.seeders) = Len(seeders[f])
                  /\ \A i \in 1..Len(seeders[f]) :
                       reply.seeders[i] = <<seeders[f][i].host, seeders[f][i].port>>
                  /\ reply.file_size = seeders[f][1].file_size
                  /\ reply.chunk_count = seeders[f][1].chunk_count
             ELSE /\ reply.seeders = <<>>
                  /\ reply.file_size = 0
                  /\ reply.chunk_count = 0]_vars

\* a request has just been answered with two seeders whose records differ in
\* file_size
C11_Witness ==
  /\ last = "deliver"
  /\ IsRequest(msg)
  /\ Len(out) = 1
  /\ Len(out[1].seeders) = 2
  /\ seeders[msg.file][1].file_size # seeders[msg.file][2].file_size

\* C12: a register or become_seeder whose file_name or port is missing gets no
\* reply and changes nothing in the registry; one that carries both gets
\* exactly one ack, sent to its sender.
C12_RegisterReply ==
  [][(last' = "deliver" /\ IsRegister(msg')) =>
       IF msg'.file = None \/ msg'.port = NoPort
       THEN out' = <<>> /\ seeders' = seeders
       ELSE out' = <<[type |-> "ack", to |-> msg'.addr]>>]_vars

\* a register without file_name or port has just been dropped while the
\* registry held records
C12_Witness ==
  /\ last = "deliver"
  /\ IsRegister(msg)
  /\ msg.file = None \/ msg.port = NoPort
  /\ out = <<>>
  /\ DOMAIN seeders # {}

\* C13: in every registry, a become_seeder leaves the registry and sends the
\* reply that a register with the same fields from the same address does.
C13_BecomeSeederIsRegister ==
  \A hd \in RegisterHeaders, ts \in Stamps :
    HandleMessage(seeders, Datagram("become_seeder", hd), ts, now)
      = HandleMessage(seeders, Datagram("register", hd), ts, now)

\* a become_seeder has just replaced the record of a registered seeder that is
\* not the only one of its file
C13_Witness ==
  /\ last = "deliver"
  /\ msg.command_type = "become_seeder"
  /\ msg.file \in DOMAIN seeders
  /\ Len(seeders[msg.file]) = 2
  /\ seeders[msg.file][1].host = ResolveHost(msg.host, msg.addr)
  /\ seeders[msg.file][1].last_seen > seeders[msg.file][2].last_seen
  /\ out = <<Ack(msg.addr)>>

\* C14: a datagram that cannot be decoded, is not a command, or carries a command
\* other than register, become_seeder, keepalive and request gets no reply and
\* changes nothing the handlers of later datagrams read (the registry, the
\* clock).
C14_UnknownDropped ==
  [][(last' = "deliver" /\ IsUnknown(msg')) =>
       /\ out' = <<>>
       /\ seeders' = seeders
       /\ now' = now]_vars

\* a datagram has just been dropped while the registry held records
C14_Witness ==
  /\ last = "deliver"
  /\ IsUnknown(msg)
  /\ out = <<>>
  /\ DOMAIN seeders # {}

\* ----------------------------------------------------------- Seeder claims
\* the request the connection just served made is a get command
IsGet(req) ==
  /\ req.data = "bytes"
  /\ req.decodable
  /\ req.message_type = "command"
  /\ req.command_type = "get"

\* C15: a get whose chunk_index is in 0..chunk_count-1 is answered with
\* chunk_data carrying that index, the manifest's bytes of that index as body,
\* their length as chunk_size and the manifest's hash of that index; a get whose
\* index is missing or out of range is answered with error and no chunk bytes.
C15_GetReply ==
  [][(slast' = "handle_client" /\ IsGet(conn'.req) /\ conn'.sendOk) =>
       LET req == conn'.req
           chunks == Manifest(SeederPair)
           sent == conn'.replies
       IN /\ Len(sent) = 1
          /\ IF "chunk_index" \in DOMAIN req
                /\ 0 <= req.chunk_index /\ req.chunk_index < Len(chunks)
             THEN /\ sent[1].control_type = "chunk_data"
                  /\ sent[1].chunk_index = req.chunk_index
                  /\ sent[1].body = chunks[req.chunk_index + 1]
                  /\ sent[1].chunk_size = ChunkLen(sent[1].body)
                  /\ sent[1].hash = Hash(chunks[req.chunk_index + 1])
             ELSE /\ sent[1].control_type = "error"
                  /\ sent[1].body = None]_vars

\* a get for the last chunk, which is shorter than CHUNK_SIZE, has just been served
C15_Witness ==
  /\ slast = "handle_client"
  /\ IsGet(conn.req)
  /\ Len(conn.replies) = 1
  /\ conn.replies[1].control_type = "chunk_data"
  /\ conn.replies[1].chunk_index = Len(Manifest(SeederPair)) - 1
  /\ conn.replies[1].chunk_size < CHUNK_SIZE

\* C16: a handler thread serves one accepted connection, sends at most one
\* message on it and leaves it closed, also when it ends in an exception; a
\* request with no command or a command other than get and get_count gets no
\* message.
C16_OneReplyThenClose ==
  [][slast' = "handle_client" =>
       /\ pending' = pending - 1
       /\ conn'.state = "closed"
       /\ Len(conn'.replies) <= 1
       /\ (/\ conn'.req.data = "bytes"
           /\ conn'.req.decodable
           /\ conn'.req.command_type \notin {"get", "get_count"})
            => conn'.replies = <<>>]_vars

\* a handler has just ended in an exception with its connection closed
C16_Witness ==
  /\ slast = "handle_client"
  /\ conn.raised
  /\ conn.state = "closed"
  /\ conn.replies = <<>>

\* C17: when the registration is answered by nothing within the timeout or by
\* anything but a control/ack message, start() has returned False, and the
\* Seeder has not bound or listened, has not set running, has started neither
\* the keepalive thread nor the accept loop, and has accepted no connection.
C17_FailedRegistration ==
  (response # NoReply
     /\ ~(response.kind = "datagram" /\ response.decodable
          /\ response.message_type = "control" /\ response.control_type = "ack")) =>
    /\ spc = "done"
    /\ sres = "false"
    /\ tcp_socket \in {"open", "closed"}
    /\ ~running
    /\ kpc = "none"
    /\ pending = 0
    /\ conn = NoConn
    /\ seen = {}

\* start() has returned False on a control message that is no ack
C17_Witness ==
  /\ spc = "done"
  /\ sres = "false"
  /\ response.kind = "datagram"
  /\ response.message_type = "control"
  /\ response.control_type = "error"

\* C18 (as claimed): the Seeder is running only after an ack to its register
\* was received, and once a call of stop() has returned running is never true.
C18_ForwardLifecycle ==
  /\ running => (response.kind = "datagram" /\ response.control_type = "ack")
  /\ stops > 0 => ~running

\* the state of the Seeder stop() works on
SeederState ==
  [running |-> running, shutdown_event |-> shutdown_event, tcp_socket |-> tcp_socket,
   udp_socket |-> udp_socket]

\* running false, shutdown signal set, both sockets closed
Stopped ==
  [running |-> FALSE, shutdown_event |-> TRUE, tcp_socket |-> "closed",
   udp_socket |-> "closed"]

\* C19: in every state of the Seeder's life a call of stop() ends with running
\* false, the shutdown signal set and both sockets closed, a second call right
\* after it leaves that state as it is, and a call that returns with no other
\* thread of the Seeder at work (before start(), after a failed start()) has
\* left exactly that state.
C19_StopIdempotent ==
  /\ StopEffect(SeederState) = Stopped
  /\ StopEffect(StopEffect(SeederState)) = StopEffect(SeederState)
  /\ (stops > 0 /\ xpc = "idle" /\ (spc = "idle" \/ sres = "false")) => SeederState = Stopped

\* stop() has returned twice, before start() and after start() has failed
C19_Witness ==
  /\ stops = 2
  /\ xpc = "idle"
  /\ slast = "stop_return"
  /\ sres = "false"
  /\ SeederState = Stopped

\* C20: once a call of stop() on a started Seeder has returned, start() and the
\* keepalive thread come to an end; a loop that has read the shutdown signal
\* as set accepts no connection and sends no keepalive afterwards.
C20_LoopsTerminate ==
  /\ [][/\ "accept" \in seen => slast' # "accept"
        /\ "keepalive" \in seen => slast' # "ka_send"]_vars
  /\ (stops > 0 /\ spc # "idle") ~> (spc = "done" /\ kpc \in {"none", "done", "raised"})

\* both loops have read the shutdown signal as set and have ended
C20_Witness ==
  /\ stops > 0
  /\ seen = {"accept", "keepalive"}
  /\ spc = "done"
  /\ kpc = "done"

\* C30 (as claimed): every record of the registry and every peer_list reply
\* carries a chunk_count equal to ceil(file_size / CHUNK_SIZE), whatever
\* registers and become_seeders the Tracker has accepted.
C30_ChunkCountIsCeiling ==
  /\ \A f \in DOMAIN seeders : \A i \in 1..Len(seeders[f]) :
       seeders[f][i].chunk_count = ChunkCount(seeders[f][i].file_size)
  /\ \A k \in 1..Len(out) :
       out[k].type = "peer_list" => out[k].chunk_count = ChunkCount(out[k].file_size)

\* C21 (as claimed): a construction over a file that does not exist ends in
\* the error with no socket created by it, the listen port given or not.
C21_NoSocketBeforeError ==
  built = "raised" => opened = 0

\* ------------------------------------------------------ split_file claims
\* ceil(S / C) for a file of the sizes considered
Ceiling(size) ==
  CHOOSE n \in 0..(MaxFullChunks + 1) :
    n * CHUNK_SIZE >= size /\ (n = 0 \/ (n - 1) * CHUNK_SIZE < size)

\* C31: once split_file has returned, it has cut ceil(S / CHUNK_SIZE) chunks, the
\* number get_file_info reported; every chunk but the last has CHUNK_SIZE bytes
\* and the last has between 1 and CHUNK_SIZE; the chunks are the bytes of the file
\* in order, each starting where the one before ended and the last ending at S;
\* and a file of 1,200,000 bytes gives chunks of 524288, 524288 and 151424 bytes
C31_SplitFile ==
  split.pc = "done" =>
    LET n == Len(split.chunks)
    IN /\ n = Ceiling(split.file_size)
       /\ n = split.chunk_count
       /\ Len(split.hashes) = n
       /\ \A i \in 1..(n - 1) : split.chunks[i].len = CHUNK_SIZE
       /\ n > 0 => 1 <= split.chunks[n].len /\ split.chunks[n].len <= CHUNK_SIZE
       /\ \A i \in 1..n :
            split.chunks[i].first = (IF i = 1 THEN 0
                                     ELSE split.chunks[i - 1].first + split.chunks[i - 1].len)
       /\ split.file_size = (IF n = 0 THEN 0
                             ELSE split.chunks[n].first + split.chunks[n].len)
       /\ split.file_size = 1200000 =>
            [i \in 1..n |-> split.chunks[i].len] = <<524288, 524288, 151424>>

\* split_file has returned for the file of 1,200,000 bytes
C31_Witness ==
  /\ split.pc = "done"
  /\ split.file_size = 1200000
  /\ Len(split.chunks) = 3

\* ---------------------------------------------------------- Leecher claims
\* task i of the batch has returned in the step just taken
Returned(i) ==
  /\ i <= Len(remaining_futures)
  /\ i <= Len(remaining_futures')
  /\ remaining_futures[i].state = "running"
  /\ remaining_futures'[i].state # "running"

\* C22 (as claimed): download_chunk returns true or false and never raises, and
\* when it returns false downloaded_chunks and chunk_hashes are as they were.
C22_FailureLeavesStateAlone ==
  [][\A i \in 1..MaxWorkers :
       Returned(i) =>
         /\ remaining_futures'[i].state \in {"true", "false"}
         /\ remaining_futures'[i].state = "false" =>
              /\ downloaded_chunks' = downloaded_chunks
              /\ chunk_hashes' = chunk_hashes]_vars

\* C23 (as claimed): outside the lock downloaded_chunks and chunk_hashes have
\* the same keys.
C23_SameKeys ==
  DOMAIN downloaded_chunks = DOMAIN chunk_hashes

\* the file the Tracker's metadata describes: the first listed seeder's
SourceFile == Written(Manifest(lseeders[1]))

\* C24: download_complete turns true only when downloaded_chunks holds
\* total_chunks entries, whose keys are then 0..total_chunks-1; download_file
\* returns success only with download_complete true; and no chunk is asked for
\* after a failed discovery or with total_chunks = 0.
C24_CompleteMeansAllChunks ==
  /\ [][(~download_complete /\ download_complete') =>
          /\ Cardinality(DOMAIN downloaded_chunks') = total_chunks'
          /\ DOMAIN downloaded_chunks' = 0..(total_chunks' - 1)]_vars
  /\ []((lpc = "done" /\ result) => download_complete)
  /\ []((remaining_futures # <<>> \/ DOMAIN downloaded_chunks # {}) =>
          (lseeders # <<>> /\ total_chunks > 0))

\* the completion check has just found all three chunks of the file, fetched
\* two at a time
C24_Witness ==
  /\ lpc = "assemble"
  /\ download_complete
  /\ total_chunks = 3
  /\ workers = 2
  /\ chunks_to_download = <<>>

\* the chunk indices waiting in chunks_to_download
Queued == {chunks_to_download[k] : k \in 1..Len(chunks_to_download)}

\* the chunk indices of the tasks of the current batch
InBatch == {remaining_futures[k].chunk : k \in 1..Len(remaining_futures)}

\* the tasks of the current batch that have not returned
InFlight == {k \in 1..Len(remaining_futures) : remaining_futures[k].state = "running"}

\* C32: every chunk index of 0..total_chunks-1 is in the queue, in the current
\* batch, or in neither, which it reaches only when its task has returned success
\* and never leaves; the queue and the batch hold no index twice and share none;
\* a batch has at most max_concurrent_downloads tasks; when the batch is
\* collected every task of it has returned, the indices of those that returned
\* false are back in the queue and the indices of those that returned true are not
C32_QueueBatchDone ==
  /\ [](/\ Queued \cup InBatch \subseteq 0..(total_chunks - 1)
        /\ Queued \cap InBatch = {}
        /\ Cardinality(Queued) = Len(chunks_to_download)
        /\ Cardinality(InBatch) = Len(remaining_futures)
        /\ Len(remaining_futures) <= workers
        /\ Cardinality(InFlight) <= workers)
  /\ [][\A c \in 0..(total_chunks - 1) :
          /\ c \notin Queued \cup InBatch => c \notin Queued' \cup InBatch'
          /\ (c \in InBatch /\ c \notin InBatch') =>
               /\ InFlight = {}
               /\ InBatch' = {}
               /\ \E k \in 1..Len(remaining_futures) :
                    /\ remaining_futures[k].chunk = c
                    /\ remaining_futures[k].state = "false" => c \in Queued'
                    /\ remaining_futures[k].state = "true" => c \notin Queued'
          /\ (c \in Queued /\ c \notin Queued') => c \in InBatch']_vars

\* a batch of two tasks has been collected: one returned true, the other false and
\* its chunk is queued again
C32_Witness ==
  /\ lpc = "submit"
  /\ workers = 2
  /\ remaining_futures = <<>>
  /\ total_chunks = 3
  /\ Cardinality(Queued) = 2
  /\ \E c \in 0..(total_chunks - 1) : c \notin Queued /\ c \in DOMAIN downloaded_chunks

\* the seeder that holds the whole file is listed, holds every chunk the Tracker
\* announced, stays reachable, and every task that asked it has returned success
GoodSeederServes ==
  /\ GoodSeeder \in up
  /\ lpc # "start" =>
       /\ \E k \in 1..Len(lseeders) : lseeders[k] = GoodSeeder
       /\ total_chunks \in 1..Len(Manifest(GoodSeeder))
  /\ \A k \in 1..Len(remaining_futures) :
       (remaining_futures[k].seeder = GoodSeeder /\ remaining_futures[k].state # "running")
         => remaining_futures[k].state = "true"

\* download_file has returned success with the bytes of every chunk recorded
DownloadedAll ==
  /\ lpc = "done"
  /\ result
  /\ \A c \in 0..(total_chunks - 1) :
       c \in DOMAIN downloaded_chunks /\ downloaded_chunks[c] = Manifest(GoodSeeder)[c + 1]

\* C33: if one listed seeder stays reachable and serves every chunk correctly,
\* then, seeders being drawn fairly, download_file eventually returns success
\* with every chunk fetched, whatever the other listed seeders do
C33_EventuallyComplete == []GoodSeederServes => <>DownloadedAll

\* the records the Tracker holds under the file for the Leecher's port that are
\* not another seeder's
PeerRecords ==
  IF FileName \notin DOMAIN seeders THEN {}
  ELSE {i \in 1..Len(seeders[FileName]) :
          /\ seeders[FileName][i].port = LeecherPort
          /\ seeders[FileName][i].host \notin {sd.host : sd \in Seeds}}

\* C36: once start_seeding has returned True the Tracker holds at most one record
\* of the peer, exactly one while the record of a become_seeder the Tracker has
\* acknowledged is fresh and as long as its Seeder runs; the Seeder's register replaces the record the
\* become_seeder left, and each keepalive of the Seeder sets last_seen of that
\* record to the time it is handled
C36_OneRecordForNewSeeder ==
  /\ []((seeding \in {"construct", "true"} /\ announce = TrackerAck
          /\ now < TRACKER_TIMEOUT) => Cardinality(PeerRecords) = 1)
  /\ [](seeding = "true" => Cardinality(PeerRecords) <= 1)
  /\ [](running => Cardinality(PeerRecords) = 1)
  /\ [][(running /\ running' /\ kaDue' # kaDue) =>
          /\ last' = "keepalive_hit"
          /\ \A i \in PeerRecords : seeders'[FileName][i].last_seen = now']_vars

\* the Seeder the Leecher started has registered over the record of the
\* become_seeder and a keepalive of it has been handled after a sweep
C36_Witness ==
  /\ running
  /\ seeding = "true"
  /\ now >= KEEPALIVE_INTERVAL
  /\ last = "keepalive_hit"
  /\ Cardinality(PeerRecords) = 1
  /\ \A i \in PeerRecords : seeders[FileName][i].host = DefaultHost

\* C34: an entry of downloaded_chunks holds the bytes of that chunk as a listed
\* seeder sent them in a chunk_data message, never the empty body of an error
\* reply, and a task that returned success has recorded such an entry
C34_OnlyChunkDataRecorded ==
  /\ \A c \in DOMAIN downloaded_chunks :
       \E k \in 1..Len(lseeders) :
         /\ SendChunk(lseeders[k], c).control_type = "chunk_data"
         /\ downloaded_chunks[c] = SendChunk(lseeders[k], c).body
  /\ \A k \in 1..Len(remaining_futures) :
       remaining_futures[k].state = "true" =>
         remaining_futures[k].chunk \in DOMAIN downloaded_chunks

\* C35: download_file has returned success only if assemble_file has returned
\* success and the whole file is at output_path
C35_SuccessMeansAssembled ==
  (lpc = "done" /\ result) => (assembled = "true" /\ output.exists)

\* Leecher.wait_for_download(timeout): what it returns, however long it waits
WaitForDownload == download_event

\* C25 (as claimed): the completion signal is raised only when the download is
\* complete, and once download_file has returned with download_complete true
\* the signal is raised, so that wait_for_download returns true.
C25_SignalOnComplete ==
  /\ download_event => download_complete
  /\ (lpc = "done" /\ download_complete) => WaitForDownload

\* index i has bytes among the downloaded chunks
HasBytes(i) == i \in DOMAIN downloaded_chunks /\ downloaded_chunks[i] # None

\* assemble_file has returned in the step just taken
Assembled == assembled = "none" /\ assembled' # "none"

\* C26: assemble_file returns success only when every index below total_chunks
\* has bytes, and the file then is those chunks in index order; when the number
\* of recorded chunks is not total_chunks, or an index has no bytes, it returns
\* failure.
C26_AssembleAllOrFail ==
  [][Assembled =>
       /\ assembled' = "true" =>
            /\ \A i \in 0..(total_chunks - 1) : HasBytes(i)
            /\ output'.exists
            /\ output'.data = Written([i \in 1..total_chunks |-> downloaded_chunks[i - 1]])
       /\ (\/ Cardinality(DOMAIN downloaded_chunks) # total_chunks
           \/ \E i \in 0..(total_chunks - 1) : ~HasBytes(i)) => assembled' = "false"]_vars

\* assemble_file has failed on a gap at index 1 behind a chunk it had written
C26_Witness ==
  /\ assembled = "false"
  /\ total_chunks = 3
  /\ Cardinality(DOMAIN downloaded_chunks) = 3
  /\ downloaded_chunks[0] # None
  /\ downloaded_chunks[1] = None
  /\ output.exists

\* verify_file has returned in the step just taken
Verified == verified = "none" /\ verified' # "none"

\* the hash recorded for chunk i is the hash of the i-th window of the file
WindowMatches(i) ==
  /\ i \in DOMAIN chunk_hashes
  /\ compute_hash(Window(output.data, i)) = chunk_hashes[i]

\* the file is the assembly of chunks cut at CHUNK_SIZE, all but the last one
\* full, each recorded with its own hash
CleanDownload ==
  /\ AssembleFile(downloaded_chunks, total_chunks, NoFile).ok
  /\ \A i \in 0..(total_chunks - 1) :
       /\ i \in DOMAIN chunk_hashes
       /\ chunk_hashes[i] = Hash(downloaded_chunks[i])
       /\ i < total_chunks - 1 => Len(Bytes(downloaded_chunks[i])) * BlockSize = CHUNK_SIZE

\* C27: verify_file returns success exactly when the file exists and every
\* window of it below total_chunks has the hash recorded for its index; on a
\* clean download it succeeds on the file as assembled and fails once a byte of
\* that file has been changed.
C27_VerifyIffHashesMatch ==
  [][Verified =>
       /\ verified' = "true" <=>
            (output.exists /\ \A i \in 0..(total_chunks - 1) : WindowMatches(i))
       /\ (CleanDownload /\ assembled = "true" /\ Untouched(output)) => verified' = "true"
       /\ (CleanDownload /\ assembled = "true" /\ ~Untouched(output)) => verified' = "false"]_vars

\* verify_file has failed on a clean three-chunk download whose last block was
\* changed
C27_Witness ==
  /\ verified = "false"
  /\ assembled = "true"
  /\ CleanDownload
  /\ total_chunks = 3
  /\ Len(output.data) = 5
  /\ output.data[5] = Changed
  /\ \A k \in 1..4 : output.data[k] # Changed

\* recvfrom has given register_as_seeder an ack
AckReceived == announce.kind = "datagram" /\ announce.control_type = "ack"

Announced ==
  /\ FileName \in DOMAIN seeders
  /\ \E i \in 1..Len(seeders[FileName]) : seeders[FileName][i].host = LeecherAddr

\* C29: the driver goes from download to verification to seeding and no other
\* way: verify_file runs only after download_file returned success, and the
\* Leecher sends a become_seeder, is listed by the Tracker or constructs a
\* Seeder only after verify_file returned success.
C29_SeedOnlyAfterVerify ==
  /\ assembled # "none" => download_complete
  /\ verified # "none" => (lpc = "done" /\ result)
  /\ seeding # "none" => verified = "true"
  /\ (announce # NoReply \/ Announced \/ built # "no") => verified = "true"
  /\ (lpc = "done" /\ ~result) => (verified = "none" /\ seeding = "none")

\* the driver has stopped after a download that succeeded and a verification
\* that failed
C29_Witness ==
  /\ fpc = "end"
  /\ result
  /\ verified = "false"
  /\ seeding = "none"

\* C3 (as claimed): when download_file returns success the file at output_path
\* is the source file, chunk for chunk.
C3_SuccessMeansIdentical ==
  (lpc = "done" /\ result = TRUE) =>
    (output.exists /\ output.data = SourceFile)

\* C4 (as claimed): when every seeder is down, download_file comes to an end,
\* returns failure and has assembled no file.
C4_AllFailingTerminates ==
  (up = {}) ~> (lpc = "done" /\ result = FALSE /\ ~output.exists)

====
